---- MODULE Spec2Model ----
(***************************************************************************)
(* A model of the protocol converter: the path language                    *)
(* (utils/yaml_path.py), the structural matchers (core/matcher.py and the  *)
(* one inside core/converter.py), the variable extractor, the renderers    *)
(* (core/renderer.py and the one inside core/converter.py) and             *)
(* ProtocolConverter.convert.                                              *)
(*                                                                         *)
(* Python values are pairs <<kind, payload>>.  A Python string is a        *)
(* sequence of tokens (each token stands for a run of characters), so that *)
(* startswith, strip, split, regular-expression search and Jinja2          *)
(* substitution are computed on the text and not assumed.  A dict is an    *)
(* association list in insertion order.                                    *)
(***************************************************************************)
EXTENDS Integers, Sequences, FiniteSets, TLC

VARIABLES
    p_tree,     \* yaml_path: the data object the path operations act on
    p_path,     \* yaml_path: YamlPath.segments
    p_prev,     \* yaml_path: the data object before the last operation
    p_op,       \* yaml_path: the last operation applied
    p_res,      \* yaml_path: what the last operation returned or raised
    p_got,      \* yaml_path: result of the last get_value on p_prev
    p_steps,    \* yaml_path: number of mutating operations applied so far
    m_template, \* matching: the template content
    m_data,     \* matching: the input data
    m_match,    \* matching: <<what _is_match of core/matcher.py returned>>
    m_legacy,   \* matching: <<what _is_match of core/converter.py returned>>
    m_vars,     \* matching: <<what extract_variables returned or raised>>
    r_functions,  \* rendering: TemplateRenderer.converter_functions
    r_template,   \* rendering: the target template content
    r_variables,  \* rendering: the variables given to render
    r_source,     \* rendering: source_json
    r_target,     \* rendering: target_protocol
    r_rnd,        \* rendering: the draws of uuid4, in order
    r_pc,         \* rendering: "start" or "done"
    r_out,        \* rendering: what render returned or raised, and the calls
    c_functions,  \* ProtocolConverter.converter_functions
    c_protocols,  \* ProtocolConverter.matcher.protocols, in insertion order
    c_loaded,     \* what the last load_protocol did
    c_pc,         \* "loading", or "converted" once convert was called
    c_request,    \* the arguments of the call of convert
    c_out,        \* what convert returned or raised
    s_config,     \* SchemaMatcher.config
    s_request,    \* schema matching: <<the arguments of find_best_match>>
    s_scored,     \* schema matching: what the call scored, per candidate
    s_out,        \* schema matching: <<what find_best_match returned>>
    f_value,      \* field mapping: the value given to split_intersection
    f_parts,      \* field mapping: <<what split_intersection returned>>
    f_combined,   \* field mapping: <<what combine_intersection returned>>
    k_mapper,     \* FieldMapper: processors, mapping_config and defaults
    k_request,    \* <<the arguments of the call of process_mapping>>
    k_out,        \* <<what process_mapping returned or raised>>
    v_template,   \* variable mapping: the template given to map_variables
    v_out,        \* variable mapping: <<what map_variables returned>>
    y_counter,    \* YamlProcessor.placeholder_counter
    y_placeholders, \* YamlProcessor.jinja_placeholders
    y_returned,   \* what the calls of protect_jinja_syntax returned, in order
    g_matcher,    \* which ProtocolMatcher: that of core/matcher.py or core/converter.py
    g_protocols,  \* ProtocolMatcher.protocols, in the order of the dict
    g_added,      \* the protocols given to add_protocol, call after call
    g_request,    \* <<the arguments of the call of match_protocol>>
    g_out         \* <<what match_protocol returned or raised>>

pathVars == <<p_tree, p_path, p_prev, p_op, p_res, p_got, p_steps>>
matchVars == <<m_template, m_data, m_match, m_legacy, m_vars>>
renderVars == <<r_functions, r_template, r_variables, r_source, r_target,
                r_rnd, r_pc, r_out>>
convertVars == <<c_functions, c_protocols, c_loaded, c_pc, c_request, c_out>>

schemaVars == <<s_config, s_request, s_scored, s_out>>
fieldVars == <<f_value, f_parts, f_combined>>
mappingVars == <<k_mapper, k_request, k_out>>
varmapVars == <<v_template, v_out>>
protectVars == <<y_counter, y_placeholders, y_returned>>
registryVars == <<g_matcher, g_protocols, g_added, g_request, g_out>>

vars == <<pathVars, matchVars, renderVars, convertVars, schemaVars, fieldVars,
          mappingVars, varmapVars, protectVars, registryVars>>

(***************************************************************************)
(* Python values: a value is <<kind, payload>>.  The payload of a string   *)
(* is its sequence of tokens, of a list the sequence of its items, and of  *)
(* a dict the sequence of its <<key, value>> pairs in insertion order.     *)
(***************************************************************************)
Null == <<"null", <<>>>>
Bool(b) == <<"bool", b>>
Num(n) == <<"num", n>>
Str(toks) == <<"str", toks>>
List(items) == <<"list", items>>
Dict(pairs) == <<"dict", pairs>>

IsNull(t) == t[1] = "null"
IsStr(t) == t[1] = "str"
IsList(t) == t[1] = "list"
IsDict(t) == t[1] = "dict"

\* K(v): v is worked out once and goes under one name in what follows
With(v, K(_)) == K(v)

\* key in d
DictHas(d, key) == \E i \in 1..Len(d[2]) : d[2][i][1] = key
\* d[key]
DictGet(d, key) == d[2][CHOOSE i \in 1..Len(d[2]) : d[2][i][1] = key][2]
\* d[key] = val  (an existing key keeps its position, a new key goes last)
DictPut(d, key, val) ==
    IF DictHas(d, key)
    THEN Dict([i \in 1..Len(d[2]) |->
                 IF d[2][i][1] = key THEN <<key, val>> ELSE d[2][i]])
    ELSE Dict(Append(d[2], <<key, val>>))
\* del d[key]
DictDel(d, key) == Dict(SelectSeq(d[2], LAMBDA kv : kv[1] # key))
\* list(d.keys())
DictKeys(d) == [i \in 1..Len(d[2]) |-> d[2][i][1]]

\* lst[i] = val, with a 0-based index inside the list
ListPut(lst, i, val) ==
    List([j \in 1..Len(lst[2]) |-> IF j = i + 1 THEN val ELSE lst[2][j]])
\* lst.pop(i)
ListPop(lst, i) ==
    List([j \in 1..(Len(lst[2]) - 1) |->
            IF j < i + 1 THEN lst[2][j] ELSE lst[2][j + 1]])

(***************************************************************************)
(* utils/yaml_path.py                                                      *)
(***************************************************************************)
KeySeg(key, opt) ==
    [type |-> "object_key", key |-> key, idx |-> 0, is_optional |-> opt]
IdxSeg(i) ==
    [type |-> "array_index", key |-> <<>>, idx |-> i, is_optional |-> FALSE]
WildSeg ==
    [type |-> "array_wildcard", key |-> <<"*">>, idx |-> 0, is_optional |-> FALSE]

Returned(val) == [raised |-> "none", val |-> val]
Raised(exc) == [raised |-> exc, val |-> Null]

\* the results of a list of calls: the list of values, or the first exception
RECURSIVE CollectAll(_)
CollectAll(rs) ==
    IF rs = <<>> THEN Returned(List(<<>>))
    ELSE IF Head(rs).raised # "none" THEN Head(rs)
    ELSE LET rest == CollectAll(Tail(rs)) IN
         IF rest.raised # "none" THEN rest
         ELSE Returned(List(<<Head(rs).val>> \o rest.val[2]))

RECURSIVE GetValue(_, _)
GetValue(current, segments) ==
    IF segments = <<>> THEN Returned(current)
    ELSE
      LET segment == Head(segments)
          rest == Tail(segments)
      IN
      CASE segment.type = "object_key" ->
             IF ~IsDict(current) THEN Raised("PathError")
             ELSE IF ~DictHas(current, segment.key)
                  THEN IF segment.is_optional THEN Returned(Null)
                       ELSE Raised("PathError")
             ELSE GetValue(DictGet(current, segment.key), rest)
        [] segment.type = "array_index" ->
             IF ~IsList(current) THEN Raised("PathError")
             ELSE LET index == IF segment.idx >= 0 THEN segment.idx
                               ELSE Len(current[2]) + segment.idx
                  IN IF index < 0 \/ index >= Len(current[2])
                     THEN Raised("PathError")
                     ELSE GetValue(current[2][index + 1], rest)
        [] segment.type = "array_wildcard" ->
             IF ~IsList(current) THEN Raised("PathError")
             ELSE IF rest # <<>>
                  THEN CollectAll([j \in 1..Len(current[2]) |->
                                     GetValue(current[2][j], rest)])
                  ELSE Returned(current)

Exists(data, segments) == GetValue(data, segments).raised = "none"

\* while len(current) <= n: current.append(None)
PadTo(lst, n) ==
    IF Len(lst[2]) > n THEN lst
    ELSE List([j \in 1..(n + 1) |-> IF j <= Len(lst[2]) THEN lst[2][j] ELSE Null])

\* the empty container set_value creates before a segment of the given type
NewContainer(next_segment) ==
    IF next_segment.type \in {"array_index", "array_wildcard"}
    THEN List(<<>>) ELSE Dict(<<>>)

\* Python's current[i] for a list: a negative i counts from the end
PyIndexOk(lst, i) == IF i >= 0 THEN i < Len(lst[2]) ELSE -i <= Len(lst[2])
PyIndex(lst, i) == IF i >= 0 THEN i ELSE Len(lst[2]) + i

\* set_value from `current` on; the object is modified in place, so what was
\* done before an exception stays done: the result carries the object too
RECURSIVE SetFrom(_, _, _)
SetFrom(current, segments, value) ==
    LET segment == Head(segments) IN
    IF Len(segments) = 1
    THEN \* the final segment
      CASE segment.type = "object_key" ->
             IF ~IsDict(current) THEN [raised |-> "PathError", val |-> current]
             ELSE [raised |-> "none", val |-> DictPut(current, segment.key, value)]
        [] segment.type = "array_index" ->
             IF ~IsList(current) THEN [raised |-> "PathError", val |-> current]
             ELSE LET padded == PadTo(current, segment.idx) IN
                  IF ~PyIndexOk(padded, segment.idx)
                  THEN [raised |-> "IndexError", val |-> padded]
                  ELSE [raised |-> "none",
                        val |-> ListPut(padded, PyIndex(padded, segment.idx), value)]
        [] OTHER -> [raised |-> "none", val |-> current]
    ELSE
      LET next_segment == segments[2] IN
      CASE segment.type = "object_key" ->
             IF ~IsDict(current) THEN [raised |-> "PathError", val |-> current]
             ELSE LET made == IF DictHas(current, segment.key) THEN current
                              ELSE DictPut(current, segment.key,
                                           NewContainer(next_segment))
                      sub == SetFrom(DictGet(made, segment.key), Tail(segments), value)
                  IN [raised |-> sub.raised,
                      val |-> DictPut(made, segment.key, sub.val)]
        [] segment.type = "array_index" ->
             IF ~IsList(current) THEN [raised |-> "PathError", val |-> current]
             ELSE LET padded == PadTo(current, segment.idx) IN
                  IF ~PyIndexOk(padded, segment.idx)
                  THEN [raised |-> "IndexError", val |-> padded]
                  ELSE
                    LET at == PyIndex(padded, segment.idx)
                        made == IF IsNull(padded[2][at + 1])
                                THEN ListPut(padded, at, NewContainer(next_segment))
                                ELSE padded
                        sub == SetFrom(made[2][at + 1], Tail(segments), value)
                    IN [raised |-> sub.raised, val |-> ListPut(made, at, sub.val)]
        [] OTHER -> SetFrom(current, Tail(segments), value)

SetValue(data, segments, value) ==
    IF segments = <<>> THEN [raised |-> "PathError", val |-> data]
    ELSE SetFrom(data, segments, value)

\* the object at an existing location reached through keys and indexes,
\* replaced by `value` (what an in-place change of that object does to data)
RECURSIVE PutAt(_, _, _)
PutAt(current, segments, value) ==
    IF segments = <<>> THEN value
    ELSE LET segment == Head(segments) IN
         IF segment.type = "object_key"
         THEN DictPut(current, segment.key,
                      PutAt(DictGet(current, segment.key), Tail(segments), value))
         ELSE LET at == PyIndex(current, segment.idx) IN
              ListPut(current, at, PutAt(current[2][at + 1], Tail(segments), value))

\* get_parent_path().segments
ParentSegments(segments) == SubSeq(segments, 1, Len(segments) - 1)

\* does a segment list hold a wildcard that is followed by further segments
\* (get_value then returns a list it has built, not an object of the data)
BuildsList(segments) ==
    \E i \in 1..(Len(segments) - 1) : segments[i].type = "array_wildcard"

\* the segments without a trailing wildcard (which returns the list itself)
SansTrailingWild(segments) ==
    IF segments # <<>> /\ segments[Len(segments)].type = "array_wildcard"
    THEN SubSeq(segments, 1, Len(segments) - 1) ELSE segments

\* YamlPath.delete: ret is the value returned, val the data afterwards
Delete(data, segments) ==
    IF segments = <<>> THEN [raised |-> "none", val |-> data, ret |-> FALSE]
    ELSE IF Len(segments) <= 1
    THEN \* get_parent_path raises PathError, which delete swallows
         [raised |-> "none", val |-> data, ret |-> FALSE]
    ELSE
      LET parent == GetValue(data, ParentSegments(segments))
          final_segment == segments[Len(segments)]
      IN
      IF parent.raised # "none"
      THEN [raised |-> "none", val |-> data, ret |-> FALSE]
      ELSE
        LET parent_data == parent.val
            \* a parent the data holds is changed in place; a list built by
            \* a wildcard, or the None of a missing optional key, is not
            inplace == /\ ~BuildsList(ParentSegments(segments))
                       /\ Exists(data, SansTrailingWild(ParentSegments(segments)))
                       /\ GetValue(data, SansTrailingWild(ParentSegments(segments))).val
                            = parent_data
                       /\ ~IsNull(parent_data)
            Done(new_parent) ==
                [raised |-> "none",
                 val |-> IF inplace
                         THEN PutAt(data, SansTrailingWild(ParentSegments(segments)),
                                    new_parent)
                         ELSE data,
                 ret |-> TRUE]
        IN
        IF final_segment.type = "object_key" /\ IsDict(parent_data)
        THEN IF DictHas(parent_data, final_segment.key)
             THEN Done(DictDel(parent_data, final_segment.key))
             ELSE [raised |-> "none", val |-> data, ret |-> FALSE]
        ELSE IF final_segment.type = "array_index" /\ IsList(parent_data)
        THEN LET index == IF final_segment.idx >= 0 THEN final_segment.idx
                          ELSE Len(parent_data[2]) + final_segment.idx
             IN IF 0 <= index /\ index < Len(parent_data[2])
                THEN Done(ListPop(parent_data, index))
                ELSE [raised |-> "none", val |-> data, ret |-> FALSE]
        ELSE [raised |-> "none", val |-> data, ret |-> FALSE]

(***************************************************************************)
(* Python strings as token sequences                                       *)
(***************************************************************************)
IsSpace(tok) == tok = " "

\* s.strip()
RECURSIVE LStrip(_)
LStrip(s) == IF s # <<>> /\ IsSpace(Head(s)) THEN LStrip(Tail(s)) ELSE s
RECURSIVE RStrip(_)
RStrip(s) ==
    IF s # <<>> /\ IsSpace(s[Len(s)]) THEN RStrip(SubSeq(s, 1, Len(s) - 1)) ELSE s
Strip(s) == RStrip(LStrip(s))

\* s.startswith(tok), s.endswith(tok), tok in s, for text that is one token
StartsWith(s, tok) == s # <<>> /\ s[1] = tok
EndsWith(s, tok) == s # <<>> /\ s[Len(s)] = tok
Contains(s, tok) == \E i \in 1..Len(s) : s[i] = tok

\* s.lower(), token by token
LowerTok(tok) ==
    CASE tok = "Context" -> "context"
      [] tok = "Metadata" -> "metadata"
      [] OTHER -> tok
Lower(s) == [i \in 1..Len(s) |-> LowerTok(s[i])]

\* repr(value)
RECURSIVE PyRepr(_)
PyRepr(value) ==
    CASE value[1] = "str" -> <<"'">> \o value[2] \o <<"'">>
      [] value[1] = "num" -> <<ToString(value[2])>>
      [] value[1] = "bool" -> IF value[2] THEN <<"True">> ELSE <<"False">>
      [] value[1] = "null" -> <<"None">>
      [] value[1] = "list" ->
           LET RECURSIVE Items(_)
               Items(i) == IF i > Len(value[2]) THEN <<>>
                           ELSE (IF i > 1 THEN <<", ">> ELSE <<>>)
                                \o PyRepr(value[2][i]) \o Items(i + 1)
           IN <<"[">> \o Items(1) \o <<"]">>
      [] value[1] = "dict" ->
           LET RECURSIVE Items(_)
               Items(i) == IF i > Len(value[2]) THEN <<>>
                           ELSE (IF i > 1 THEN <<", ">> ELSE <<>>)
                                \o <<"'">> \o value[2][i][1] \o <<"'", ": ">>
                                \o PyRepr(value[2][i][2]) \o Items(i + 1)
           IN <<"{">> \o Items(1) \o <<"}">>

\* str(value)
PyStr(value) == IF value[1] = "str" THEN value[2] ELSE PyRepr(value)

(***************************************************************************)
(* core/matcher.py                                                         *)
(***************************************************************************)
\* what _clean_template_for_matching returns; Python's None is Null, and a
\* None among the values of a dict or the items of a list is dropped
RECURSIVE CleanTemplateForMatching(_)
CleanTemplateForMatching(template) ==
    CASE IsDict(template) ->
           LET cleaned == [i \in 1..Len(template[2]) |->
                             <<template[2][i][1],
                               CleanTemplateForMatching(template[2][i][2])>>]
           IN Dict(SelectSeq(cleaned, LAMBDA kv : ~IsNull(kv[2])))
      [] IsList(template) ->
           LET cleaned == [i \in 1..Len(template[2]) |->
                             CleanTemplateForMatching(template[2][i])]
           IN List(SelectSeq(cleaned, LAMBDA item : ~IsNull(item)))
      [] IsStr(template) ->
           IF StartsWith(Strip(template[2]), "{#") /\ EndsWith(Strip(template[2]), "#}")
           THEN Null
           ELSE template
      [] OTHER -> template

optional_keywords == {"context", "metadata", "session_info", "processing"}

IsOptionalField(field_name, template_value) ==
    \/ \E keyword \in optional_keywords : Contains(Lower(field_name), keyword)
    \/ IsStr(template_value) /\ Contains(template_value[2], "default")

\* C6, a faulty variant of the test: only control statements are passed
IsJinjaLeafBlocksOnly(s) == StartsWith(Strip(s), "{%")

\* the test the matcher makes on a template string: a Jinja2 variable or
\* control statement
IsJinjaLeaf(s) ==
    StartsWith(Strip(s), "{{") \/ StartsWith(Strip(s), "{%")

RECURSIVE RecursiveMatch(_, _)
\* C5, a faulty variant of the loop: a key that the data lacks is passed over
RECURSIVE MatchItemsPassingAbsent(_, _, _)
MatchItemsPassingAbsent(template, data, i) ==
    IF i > Len(template[2]) THEN TRUE
    ELSE
      LET key == template[2][i][1]
          template_value == template[2][i][2]
      IN
      IF IsStr(template_value) /\ IsJinjaLeaf(template_value[2])
      THEN MatchItemsPassingAbsent(template, data, i + 1)
      ELSE IF ~DictHas(data, key)
      THEN MatchItemsPassingAbsent(template, data, i + 1)
      ELSE IF ~RecursiveMatch(template_value, DictGet(data, key))
      THEN FALSE
      ELSE MatchItemsPassingAbsent(template, data, i + 1)

\* the loop over template.items() from position i on
RECURSIVE MatchItemsFrom(_, _, _)
MatchItemsFrom(template, data, i) ==
    IF i > Len(template[2]) THEN TRUE
    ELSE
      LET key == template[2][i][1]
          template_value == template[2][i][2]
      IN
      IF IsStr(template_value) /\ IsJinjaLeaf(template_value[2])
      THEN MatchItemsFrom(template, data, i + 1)
      ELSE IF ~DictHas(data, key)
      THEN IF IsOptionalField(key, template_value)
           THEN MatchItemsFrom(template, data, i + 1)
           ELSE FALSE
      ELSE IF ~RecursiveMatch(template_value, DictGet(data, key))
      THEN FALSE
      ELSE MatchItemsFrom(template, data, i + 1)

\* C18, a faulty variant: every element of the data is held against the
\* first element of the template
RecursiveMatchEveryItem(template, data) ==
    CASE IsDict(template) ->
           IF ~IsDict(data) THEN FALSE
           ELSE MatchItemsFrom(template, data, 1)
      [] IsList(template) ->
           IF ~IsList(data) THEN FALSE
           ELSE IF Len(template[2]) = 0 THEN Len(data[2]) = 0
           ELSE \A j \in 1..Len(data[2]) : RecursiveMatch(template[2][1], data[2][j])
      [] IsStr(template) ->
           IF IsJinjaLeaf(template[2]) THEN TRUE
           ELSE PyStr(template) = PyStr(data)
      [] OTHER -> TRUE

RecursiveMatch(template, data) ==
    CASE IsDict(template) ->
           IF ~IsDict(data) THEN FALSE
           ELSE MatchItemsFrom(template, data, 1)
      [] IsList(template) ->
           IF ~IsList(data) THEN FALSE
           ELSE IF Len(template[2]) = 0 THEN Len(data[2]) = 0
           ELSE IF Len(template[2]) > 0 /\ Len(data[2]) > 0
                THEN RecursiveMatch(template[2][1], data[2][1])
                ELSE TRUE
      [] IsStr(template) ->
           IF IsJinjaLeaf(template[2]) THEN TRUE
           ELSE PyStr(template) = PyStr(data)
      [] OTHER -> TRUE

\* ProtocolMatcher._is_match of core/matcher.py
IsMatch(template, data) ==
    RecursiveMatch(CleanTemplateForMatching(template), data)

(***************************************************************************)
(* core/converter.py: ProtocolMatcher._is_match                            *)
(***************************************************************************)
\* the test this matcher makes on a template string
IsJinjaVariableString(s) ==
    StartsWith(Strip(s), "{{") /\ EndsWith(Strip(s), "}}")

\* `key in data` and `data[key]` for a data value of any type: what is
\* raised, and the value when nothing is
KeyInData(key, data) ==
    CASE IsDict(data) -> [raised |-> "none", val |-> DictHas(data, key)]
      [] IsList(data) -> [raised |-> "none",
                          val |-> \E j \in 1..Len(data[2]) :
                                    IsStr(data[2][j]) /\ data[2][j][2] = key]
      [] IsStr(data) -> [raised |-> "none",
                         val |-> \E j \in 1..(Len(data[2]) - Len(key) + 1) :
                                    SubSeq(data[2], j, j + Len(key) - 1) = key]
      [] OTHER -> [raised |-> "TypeError", val |-> FALSE]

\* the result of _is_match: [raised, val]
RECURSIVE LegacyIsMatchFrom(_, _, _)
LegacyIsMatchFrom(template, data, i) ==
    IF i > Len(template[2]) THEN [raised |-> "none", val |-> TRUE]
    ELSE
      LET key == template[2][i][1]
          template_value == template[2][i][2]
          has == KeyInData(key, data)
      IN
      IF IsStr(template_value) /\ IsJinjaVariableString(template_value[2])
      THEN LegacyIsMatchFrom(template, data, i + 1)
      ELSE IF has.raised # "none" THEN [raised |-> has.raised, val |-> FALSE]
      ELSE IF ~has.val THEN [raised |-> "none", val |-> FALSE]
      ELSE IF ~(IsDict(template_value) \/ IsList(template_value))
      THEN \* neither isinstance test reaches data[key]
           LegacyIsMatchFrom(template, data, i + 1)
      ELSE IF ~IsDict(data)
      THEN \* data[key] on a list or a string that holds the key
           [raised |-> "TypeError", val |-> FALSE]
      ELSE
        LET data_value == DictGet(data, key) IN
        IF IsDict(template_value) /\ IsDict(data_value)
        THEN LET sub == LegacyIsMatchFrom(template_value, data_value, 1) IN
             IF sub.raised # "none" \/ ~sub.val THEN sub
             ELSE LegacyIsMatchFrom(template, data, i + 1)
        ELSE IF /\ IsList(template_value) /\ IsList(data_value)
                /\ Len(template_value[2]) > 0 /\ Len(data_value[2]) > 0
                /\ IsDict(template_value[2][1]) /\ IsDict(data_value[2][1])
        THEN LET sub == LegacyIsMatchFrom(template_value[2][1], data_value[2][1], 1) IN
             IF sub.raised # "none" \/ ~sub.val THEN sub
             ELSE LegacyIsMatchFrom(template, data, i + 1)
        ELSE LegacyIsMatchFrom(template, data, i + 1)

LegacyIsMatch(template, data) == LegacyIsMatchFrom(template, data, 1)

(***************************************************************************)
(* Jinja2, as far as the templates of the model use it: text, comments,    *)
(* and {{ name }} expressions with optional filters.  A name is a maximal  *)
(* run of identifier tokens ("__" "sid" is the name __sid, "name" "_" "0"  *)
(* the name name_0).                                                       *)
(***************************************************************************)
\* the tokens that are not (part of) an identifier; every other token is
\* a run of the characters of \w
NonIdentTokens ==
    {"{{", "}}", "{#", "#}", "{%", "%}", " ", "|", "(", ")", ".", "-", ",",
     "'sh'", "\"sh\"", "array_dynamic: true", "if x", "[MISSING:", "[", "]",
     "[FUNC_ERROR:", "{", "}", "'", ", ", ": "}
IsIdent(tok) == tok \notin NonIdentTokens

\* the index of the first token at or after i that is not a space
RECURSIVE SkipSpaces(_, _)
SkipSpaces(s, i) ==
    IF i <= Len(s) /\ IsSpace(s[i]) THEN SkipSpaces(s, i + 1) ELSE i

\* the index after the run of identifier tokens that starts at i
RECURSIVE IdentEnd(_, _)
IdentEnd(s, i) ==
    IF i <= Len(s) /\ IsIdent(s[i]) THEN IdentEnd(s, i + 1) ELSE i

\* the index of the first token `tok` at or after i, or 0
RECURSIVE FindTok(_, _, _)
FindTok(s, tok, i) ==
    IF i > Len(s) THEN 0
    ELSE IF s[i] = tok THEN i ELSE FindTok(s, tok, i + 1)

\* the filters "| name" from i on, up to the closing "}}": [ok, filters, next]
RECURSIVE LexFilters(_, _, _)
LexFilters(s, i, acc) ==
    LET j == SkipSpaces(s, i) IN
    IF j <= Len(s) /\ s[j] = "}}" THEN [ok |-> TRUE, filters |-> acc, next |-> j + 1]
    ELSE IF j <= Len(s) /\ s[j] = "|"
    THEN LET f == SkipSpaces(s, j + 1)
             e == IdentEnd(s, f)
             \* the arguments "(" ... ")" of the filter, when it has some
             close == IF e <= Len(s) /\ s[e] = "(" THEN FindTok(s, ")", e + 1) ELSE e - 1
         IN IF e = f \/ close = 0 THEN [ok |-> FALSE, filters |-> acc, next |-> j]
            ELSE LexFilters(s, close + 1,
                            Append(acc, [name |-> SubSeq(s, f, e - 1),
                                         args |-> SubSeq(s, e + 1, close - 1)]))
    ELSE [ok |-> FALSE, filters |-> acc, next |-> j]

\* Environment.parse: the parts of a template string, or a syntax error
RECURSIVE JinjaParseFrom(_, _, _)
JinjaParseFrom(s, i, parts) ==
    IF i > Len(s) THEN [ok |-> TRUE, parts |-> parts]
    ELSE IF s[i] = "{{"
    THEN LET f == SkipSpaces(s, i + 1)
             e == IdentEnd(s, f)
             \* name() is a call of the name
             call == e > f /\ e < Len(s) /\ s[e] = "(" /\ s[e + 1] = ")"
         IN IF e = f THEN [ok |-> FALSE, parts |-> parts]
            ELSE LET fl == LexFilters(s, IF call THEN e + 2 ELSE e, <<>>) IN
                 IF ~fl.ok THEN [ok |-> FALSE, parts |-> parts]
                 ELSE JinjaParseFrom(s, fl.next,
                        Append(parts, [t |-> "expr", name |-> SubSeq(s, f, e - 1),
                                       call |-> call, filters |-> fl.filters,
                                       text |-> <<>>]))
    ELSE IF s[i] = "{#"
    THEN LET e == FindTok(s, "#}", i + 1) IN
         IF e = 0 THEN [ok |-> FALSE, parts |-> parts]
         ELSE JinjaParseFrom(s, e + 1, parts)
    ELSE IF s[i] = "{%"
    THEN \* the only statements of the model are unclosed blocks
         [ok |-> FALSE, parts |-> parts]
    ELSE JinjaParseFrom(s, i + 1,
           Append(parts, [t |-> "text", name |-> <<>>, call |-> FALSE,
                          filters |-> <<>>, text |-> <<s[i]>>]))

JinjaParse(s) == JinjaParseFrom(s, 1, <<>>)

\* meta.find_undeclared_variables, in order of first appearance
UndeclaredVariables(parsed) ==
    LET exprs == SelectSeq(parsed.parts, LAMBDA part : part.t = "expr") IN
    [i \in 1..Len(exprs) |-> exprs[i].name]

IsSpecialName(name) == StartsWith(name, "__")

\* variables as a dict from names to values
VarsHas(variables, name) == DictHas(variables, name)
VarsGet(variables, name) == DictGet(variables, name)

(***************************************************************************)
(* core/extractor.py (the same code stands in core/converter.py)           *)
(***************************************************************************)
\* the regular expression of the fallback of _extract_variable_name:
\* \{\{\s*([^}|]+)\s*(?:\|[^}]+)?\}\}  searched from position i on
\* the tokens that hold the character "}"
BraceTokens == {"}}", "#}", "%}", "}"}
RECURSIVE NotBraceOrBarEnd(_, _)
NotBraceOrBarEnd(s, i) ==
    IF i <= Len(s) /\ s[i] \notin BraceTokens \cup {"|"}
    THEN NotBraceOrBarEnd(s, i + 1) ELSE i
RECURSIVE NotBraceEnd(_, _)
NotBraceEnd(s, i) ==
    IF i <= Len(s) /\ s[i] \notin BraceTokens THEN NotBraceEnd(s, i + 1) ELSE i

RECURSIVE FallbackVariableSearch(_, _)
FallbackVariableSearch(s, i) ==
    LET open == FindTok(s, "{{", i) IN
    IF open = 0 THEN <<>>
    ELSE
      LET \* the group takes every character up to the first "}" or "|"
          \* (\s* gives back what it took when nothing else is left)
          f == open + 1
          e == NotBraceOrBarEnd(s, f)
          g == IF e <= Len(s) /\ s[e] = "|" THEN NotBraceEnd(s, e + 1) ELSE e
          matched == /\ e > f
                     /\ (e <= Len(s) /\ s[e] = "|") => g > e + 1
                     /\ g <= Len(s) /\ s[g] = "}}"
      IN IF matched THEN <<Strip(SubSeq(s, f, e - 1))>>
         ELSE FallbackVariableSearch(s, open + 1)

\* C7, a faulty variant: the names that start with "__" are not left out
ExtractVariableNameUnfiltered(template_str) ==
    With(JinjaParse(template_str), LAMBDA parsed :
    IF parsed.ok
    THEN With(UndeclaredVariables(parsed), LAMBDA found_vars :
              IF found_vars # <<>> THEN <<found_vars[1]>> ELSE <<>>)
    ELSE FallbackVariableSearch(template_str, 1))

\* _extract_variable_name: <<name>>, or <<>> for None
\* (of several regular variables in one string the code takes the first of a
\* set, in an order Python does not fix; the templates here hold at most one)
ExtractVariableName(template_str) ==
    With(JinjaParse(template_str), LAMBDA parsed :
    IF parsed.ok
    THEN With(SelectSeq(UndeclaredVariables(parsed), LAMBDA var : ~IsSpecialName(var)),
              LAMBDA normal_vars :
              IF normal_vars # <<>> THEN <<normal_vars[1]>> ELSE <<>>)
    ELSE With(FallbackVariableSearch(template_str, 1), LAMBDA found :
              IF found # <<>> /\ ~IsSpecialName(found[1]) THEN found ELSE <<>>))

\* data.get(key, default) for a data value of any type
DataGet(data, key, default) ==
    IF ~IsDict(data) THEN [raised |-> "AttributeError", val |-> Null]
    ELSE [raised |-> "none",
          val |-> IF DictHas(data, key) THEN DictGet(data, key) ELSE default]

\* _extract_from_dict and _extract_from_list; the result is [raised, val],
\* val being the variables dict as far as it was filled
RECURSIVE ExtractFromDictFrom(_, _, _, _)
ExtractFromList(template, data, variables) ==
    IF /\ Len(template[2]) > 0 /\ Len(data[2]) > 0
       /\ IsDict(template[2][1]) /\ IsDict(data[2][1])
    THEN ExtractFromDictFrom(template[2][1], data[2][1], variables, 1)
    ELSE [raised |-> "none", val |-> variables]

ExtractFromDictFrom(template, data, variables, i) ==
    IF i > Len(template[2]) THEN [raised |-> "none", val |-> variables]
    ELSE
      LET key == template[2][i][1]
          template_value == template[2][i][2]
      IN
      CASE IsStr(template_value) ->
             With(ExtractVariableName(template_value[2]), LAMBDA var_name :
             IF var_name = <<>> \/ var_name[1] = <<>>
             THEN ExtractFromDictFrom(template, data, variables, i + 1)
             ELSE With(KeyInData(key, data), LAMBDA has :
                  IF has.raised # "none" THEN [raised |-> has.raised, val |-> variables]
                  ELSE IF has.val /\ ~IsDict(data)
                  THEN [raised |-> "TypeError", val |-> variables]
                  ELSE ExtractFromDictFrom(template, data,
                         DictPut(variables, var_name[1],
                                 IF has.val THEN DictGet(data, key) ELSE Null),
                         i + 1)))
        [] IsDict(template_value) ->
             With(DataGet(data, key, Dict(<<>>)), LAMBDA sub_data :
             IF sub_data.raised # "none"
             THEN [raised |-> sub_data.raised, val |-> variables]
             ELSE With(ExtractFromDictFrom(template_value, sub_data.val, variables, 1),
                       LAMBDA sub :
                       IF sub.raised # "none" THEN sub
                       ELSE ExtractFromDictFrom(template, data, sub.val, i + 1)))
        [] IsList(template_value) ->
             With(DataGet(data, key, List(<<>>)), LAMBDA sub_data :
             IF sub_data.raised # "none"
             THEN [raised |-> sub_data.raised, val |-> variables]
             ELSE IF ~IsList(sub_data.val)
             THEN ExtractFromDictFrom(template, data, variables, i + 1)
             ELSE With(ExtractFromList(template_value, sub_data.val, variables),
                       LAMBDA sub :
                       IF sub.raised # "none" THEN sub
                       ELSE ExtractFromDictFrom(template, data, sub.val, i + 1)))
        [] OTHER -> ExtractFromDictFrom(template, data, variables, i + 1)

ExtractFromDict(template, data, variables) ==
    ExtractFromDictFrom(template, data, variables, 1)

\* path.split('.')
RECURSIVE SplitOn(_, _)
SplitOn(s, sep) ==
    LET at == FindTok(s, sep, 1) IN
    IF at = 0 THEN <<s>>
    ELSE <<SubSeq(s, 1, at - 1)>> \o SplitOn(SubSeq(s, at + 1, Len(s)), sep)

\* _get_nested_value; Python's None is Null
RECURSIVE GetNestedValue(_, _)
GetNestedValue(current, path_parts) ==
    IF path_parts = <<>> THEN current
    ELSE IF IsDict(current) /\ DictHas(current, Head(path_parts))
    THEN GetNestedValue(DictGet(current, Head(path_parts)), Tail(path_parts))
    ELSE Null

\* _extract_template_variables of the extractor: the regular names found in
\* a template item (the code goes through a set; its order is not observable)
ExtractTemplateVariables(template) ==
    With(ExtractFromDict(template, Dict(<<>>), Dict(<<>>)).val, LAMBDA temp :
         SelectSeq(DictKeys(temp), LAMBDA var : ~IsSpecialName(var)))

\* f"{var_name}_{i}"
IndexedName(var_name, i) == var_name \o <<"_", ToString(i)>>

\* the loops of _extract_dynamic_array_variables
RECURSIVE ExtractItemVars(_, _, _, _, _)
ExtractItemVars(template_vars, item_data, i, variables, n) ==
    IF n > Len(template_vars) THEN variables
    ELSE LET var_name == template_vars[n] IN
         ExtractItemVars(template_vars, item_data, i,
            IF DictHas(item_data, var_name)
            THEN DictPut(variables, IndexedName(var_name, i),
                         DictGet(item_data, var_name))
            ELSE variables,
            n + 1)

RECURSIVE ExtractArrayItems(_, _, _, _)
ExtractArrayItems(template_vars, array_data, variables, j) ==
    IF j > Len(array_data[2]) THEN variables
    ELSE ExtractArrayItems(template_vars, array_data,
            IF IsDict(array_data[2][j])
            THEN ExtractItemVars(template_vars, array_data[2][j], j - 1, variables, 1)
            ELSE variables,
            j + 1)

ExtractDynamicArrayVariables(marker, data, variables) ==
    With(GetNestedValue(data, SplitOn(marker.field_path, ".")), LAMBDA array_data :
         IF ~IsList(array_data) THEN variables
         ELSE ExtractArrayItems(ExtractTemplateVariables(marker.template_item),
                                array_data, variables, 1))

RECURSIVE ExtractMarkers(_, _, _, _)
ExtractMarkers(array_markers, data, variables, m) ==
    IF m > Len(array_markers) THEN variables
    ELSE ExtractMarkers(array_markers, data,
            IF array_markers[m].is_dynamic
            THEN ExtractDynamicArrayVariables(array_markers[m], data, variables)
            ELSE variables,
            m + 1)

\* VariableExtractor.extract_variables: [raised, val]
ExtractVariables(template, data, array_markers) ==
    With(ExtractFromDict(template, data, Dict(<<>>)), LAMBDA plain :
         IF plain.raised # "none" THEN plain
         ELSE [raised |-> "none",
               val |-> ExtractMarkers(array_markers, data, plain.val, 1)])

\* "# array_dynamic: true" in first_item
HasArrayDynamicMark(s) ==
    \E i \in 1..(Len(s) - 2) :
        /\ s[i] \in {"{#", "#"}
        /\ IsSpace(s[i + 1])
        /\ s[i + 2] = "array_dynamic: true"

\* f"{path}.{key}" if path else key
JoinPath(path, key) == IF path # <<>> THEN path \o <<".">> \o key ELSE key

\* ArrayMarkerParser.parse_array_markers
RECURSIVE ParseArrayMarkersFrom(_, _, _)
ParseArrayMarkersFrom(template, path, i) ==
    IF i > Len(template[2]) THEN <<>>
    ELSE
      LET key == template[2][i][1]
          value == template[2][i][2]
          current_path == JoinPath(path, key)
          here ==
            IF IsList(value) /\ Len(value[2]) > 0
            THEN LET first_item == value[2][1]
                     second_item == IF Len(value[2]) > 1 THEN value[2][2] ELSE Null
                 IN IF /\ IsStr(first_item) /\ HasArrayDynamicMark(first_item[2])
                       /\ IsDict(second_item)
                    THEN <<[field_path |-> current_path, is_dynamic |-> TRUE,
                            template_item |-> second_item]>>
                    ELSE IF IsDict(first_item)
                    THEN ParseArrayMarkersFrom(first_item, current_path, 1)
                    ELSE <<>>
            ELSE IF IsDict(value)
            THEN ParseArrayMarkersFrom(value, current_path, 1)
            ELSE <<>>
      IN here \o ParseArrayMarkersFrom(template, path, i + 1)

ParseArrayMarkers(template) == ParseArrayMarkersFrom(template, <<>>, 1)

(***************************************************************************)
(* models/types.py: ConversionContext                                      *)
(***************************************************************************)
\* uuid.uuid4().hex, as far as the code reads it: its first twelve digits,
\* cut where the code cuts them (hex[:3], hex[:6], hex[:7], hex[:8], hex[:12])
Uuids == { <<"3fa", "94c", "2", "1", "d0b7">>, <<"c0d", "e5a", "1", "1", "77e2">> }

\* the next draw of uuid4 in a rendering; rnd lists the draws in order
NextUuid(st) == st.rnd[(st.used % Len(st.rnd)) + 1]
Drawn(st) == [st EXCEPT !.used = st.used + 1]

\* the defaults of the dataclass fields
ContextDefaults ==
    [array_path |-> Null, array_index |-> Null, array_total |-> Null,
     current_element |-> Null, render_depth |-> 0, parent_path |-> Null,
     current_path |-> Null, source_protocol_id |-> Null,
     target_protocol_id |-> Null, protocol_family |-> Null,
     total_input_items |-> 0, processed_items |-> 0, is_last_item |-> FALSE]

\* _count_input_items: the length of the longest list among the values
RECURSIVE CountInputItems(_, _, _)
CountInputItems(source_json, i, total) ==
    IF ~IsDict(source_json) \/ i > Len(source_json[2]) THEN total
    ELSE LET value == source_json[2][i][2] IN
         CountInputItems(source_json, i + 1,
            IF IsList(value) /\ Len(value[2]) > total THEN Len(value[2]) ELSE total)

\* ConversionContext(**given) with __post_init__; uuid is the draw it makes
ConversionContext(given, uuid) ==
    LET field(f) == IF f \in DOMAIN given THEN given[f] ELSE ContextDefaults[f]
    IN
    [source_protocol |-> given.source_protocol,
     target_protocol |-> given.target_protocol,
     source_json |-> given.source_json,
     variables |-> given.variables,
     array_path |-> field("array_path"),
     array_index |-> field("array_index"),
     array_total |-> field("array_total"),
     current_element |-> field("current_element"),
     render_depth |-> field("render_depth"),
     parent_path |-> field("parent_path"),
     current_path |-> field("current_path"),
     source_protocol_id |-> field("source_protocol_id"),
     target_protocol_id |-> field("target_protocol_id"),
     protocol_family |->
        IF /\ given.source_protocol # <<>>
           /\ field("protocol_family") \in {Null, Str(<<>>)}
        THEN Str(given.source_protocol) ELSE field("protocol_family"),
     total_input_items |->
        CountInputItems(given.source_json, 1, field("total_input_items")),
     processed_items |-> field("processed_items"),
     is_last_item |->
        IF ~IsNull(field("array_index")) /\ ~IsNull(field("array_total"))
        THEN field("array_index")[2] = field("array_total")[2] - 1
        ELSE field("is_last_item"),
     conversion_id |-> <<"conv_">> \o uuid]

\* context.is_array_context()
IsArrayContext(context) == ~IsNull(context.array_index)

(***************************************************************************)
(* converters/functions.py                                                 *)
(***************************************************************************)
\* "shouji" and "zuoji" stand for the phone types of the source,
\* U+624B U+673A (mobile) and U+5EA7 U+673A (landline)
func_sid(context) ==
    IF context.source_protocol = <<"A">> /\ context.target_protocol = <<"C">>
    THEN LET phone_type == IF DictHas(context.variables, <<"phone_type">>)
                           THEN DictGet(context.variables, <<"phone_type">>)
                           ELSE Str(<<>>)
         IN IF IsStr(phone_type) /\ phone_type[2] = <<"shouji">>
            THEN <<"PHONE_TYPE_MOBILE">>
            ELSE IF IsStr(phone_type) /\ phone_type[2] = <<"zuoji">>
            THEN <<"PHONE_TYPE_LANDLINE">>
            ELSE <<"PHONE_TYPE_UNKNOWN">>
    ELSE IF context.source_protocol = <<"B">> /\ context.target_protocol = <<"C">>
    THEN <<"PHONE_TYPE_GENERIC">>
    ELSE IF context.source_protocol = <<"A">> /\ context.target_protocol = <<"B">>
    THEN <<"PHONE_TYPE_LABEL">>
    ELSE <<"unknown">>

func_label(context) ==
    IF context.target_protocol = <<"C">> THEN <<"O">>
    ELSE IF context.target_protocol = <<"B">> THEN <<"B">>
    ELSE <<"GENERIC">>

\* C9, a faulty variant: the array context is not looked at
func_session_id_flat(context, uuid) ==
    IF context.target_protocol = <<"C">>
    THEN <<"session_conv_">> \o SubSeq(context.conversion_id, 1, 4)
    ELSE <<"conv_">> \o SubSeq(context.conversion_id, 1, 2)

\* uuid is the draw of uuid4 the function makes in an array context
func_session_id(context, uuid) ==
    IF IsArrayContext(context)
    THEN LET base_id == <<"item", ToString(context.array_index[2]), "_conv">>
                          \o SubSeq(context.conversion_id, 1, 2)
         IN IF context.target_protocol = <<"C">>
            THEN <<"session_">> \o base_id \o <<"_">> \o SubSeq(uuid, 1, 4)
            ELSE base_id \o <<"_">> \o SubSeq(uuid, 1, 2)
    ELSE IF context.target_protocol = <<"C">>
    THEN <<"session_conv_">> \o SubSeq(context.conversion_id, 1, 4)
    ELSE <<"conv_">> \o SubSeq(context.conversion_id, 1, 2)

func_array_index(context) ==
    IF IsArrayContext(context) THEN <<ToString(context.array_index[2])>> ELSE <<"-1">>

func_array_total(context) ==
    IF ~IsNull(context.array_total) THEN <<ToString(context.array_total[2])>> ELSE <<"0">>

func_is_last_item(context) == IF context.is_last_item THEN <<"true">> ELSE <<"false">>

func_conversion_id(context) ==
    IF context.conversion_id # <<>> THEN context.conversion_id ELSE <<"unknown">>

func_current_path(context) ==
    IF context.current_path \in {Null, Str(<<>>)} THEN <<"root">>
    ELSE context.current_path[2]

func_render_depth(context) == <<ToString(context.render_depth)>>

func_parent_path(context) ==
    IF context.parent_path \in {Null, Str(<<>>)} THEN <<"root">>
    ELSE context.parent_path[2]

\* the names of CONVERTER_FUNCTIONS that the model carries
CONVERTER_FUNCTIONS ==
    { <<"func_", "sid">>, <<"func_", "label">>, <<"func_", "session_id">>,
      <<"func_", "array_index">>, <<"func_", "array_total">>,
      <<"func_", "is_last_item">>, <<"func_", "conversion_id">>,
      <<"func_", "current_path">>, <<"func_", "render_depth">>,
      <<"func_", "parent_path">> }

\* get_converter_function(func_name)(context): [st, val]
CallFunction(func_name, context, st) ==
    LET name == func_name[2] IN
    IF name = "session_id" /\ IsArrayContext(context)
    THEN [st |-> Drawn(st), val |-> func_session_id(context, NextUuid(st))]
    ELSE [st |-> st,
          val |-> CASE name = "sid" -> func_sid(context)
                    [] name = "label" -> func_label(context)
                    [] name = "session_id" -> func_session_id(context, <<>>)
                    [] name = "array_index" -> func_array_index(context)
                    [] name = "array_total" -> func_array_total(context)
                    [] name = "is_last_item" -> func_is_last_item(context)
                    [] name = "conversion_id" -> func_conversion_id(context)
                    [] name = "current_path" -> func_current_path(context)
                    [] name = "render_depth" -> func_render_depth(context)
                    [] name = "parent_path" -> func_parent_path(context)]

(***************************************************************************)
(* Rendering of one template string: core/renderer.py, and the renderer    *)
(* that core/converter.py carries                                          *)
(***************************************************************************)
\* what a name stands for when the variables do not hold it
Undefined == <<"undefined", <<>>>>
IsUndefined(x) == x[1] = "undefined"

\* bool(x)
Truthy(x) ==
    CASE x[1] \in {"null", "undefined"} -> FALSE
      [] x[1] = "bool" -> x[2]
      [] x[1] = "num" -> x[2] # 0
      [] OTHER -> x[2] # <<>>

\* str(x), of a value or of Undefined
PyStrU(x) == IF IsUndefined(x) THEN <<>> ELSE PyStr(x)

\* s.upper(), token by token
UpperTok(tok) ==
    CASE tok = "sh" -> "SH"
      [] tok = "alice" -> "ALICE"
      [] tok = "bob" -> "BOB"
      [] tok = "zhang" -> "ZHANG"
      [] OTHER -> tok
Upper(s) == [i \in 1..Len(s) |-> UpperTok(s[i])]

\* string literals of expressions, and the text they denote
QuotedTokens == {"'sh'", "\"sh\""}
Unquote(tok) == IF tok \in QuotedTokens THEN <<"sh">> ELSE <<tok>>
Requote(tok) == IF tok = "'sh'" THEN "\"sh\"" ELSE tok

\* the filters the templates of the model use
KnownFilters == { <<"upper">>, <<"lower">>, <<"default">> }

\* env.filters[name](x, *args); env is "renderer" for core/renderer.py, which
\* replaces the default filter of Jinja2, and "converter" for core/converter.py
ApplyFilter(env, filter, x) ==
    CASE filter.name = <<"upper">> ->
           IF Truthy(x) THEN Str(Upper(PyStrU(x))) ELSE Str(<<>>)
      [] filter.name = <<"lower">> ->
           IF Truthy(x) THEN Str(Lower(PyStrU(x))) ELSE Str(<<>>)
      [] filter.name = <<"default">> ->
           LET arg == Strip(filter.args)
               default_value == IF arg = <<>> THEN Str(<<>>) ELSE Str(Unquote(arg[1]))
           IN IF env = "renderer"
              THEN IF ~IsNull(x) /\ ~(IsStr(x) /\ x[2] = <<>>) THEN x ELSE default_value
              ELSE IF IsUndefined(x) THEN default_value ELSE x

RECURSIVE ApplyFilters(_, _, _, _)
ApplyFilters(env, filters, x, i) ==
    IF i > Len(filters) THEN x
    ELSE ApplyFilters(env, filters, ApplyFilter(env, filters[i], x), i + 1)

RECURSIVE RenderParts(_, _, _, _)
RenderParts(env, parts, variables, i) ==
    IF i > Len(parts) THEN <<>>
    ELSE (IF parts[i].t = "text" THEN parts[i].text
          ELSE PyStrU(ApplyFilters(env, parts[i].filters,
                        IF VarsHas(variables, parts[i].name)
                        THEN VarsGet(variables, parts[i].name) ELSE Undefined, 1)))
         \o RenderParts(env, parts, variables, i + 1)

\* env.from_string(template_str).render(**variables): [raised, val]
JinjaRender(env, template_str, variables) ==
    LET parsed == JinjaParse(template_str) IN
    IF ~parsed.ok THEN [raised |-> "TemplateSyntaxError", val |-> <<>>]
    ELSE IF \E i \in 1..Len(parsed.parts) : \E j \in 1..Len(parsed.parts[i].filters) :
                parsed.parts[i].filters[j].name \notin KnownFilters
    THEN [raised |-> "TemplateAssertionError", val |-> <<>>]
    ELSE IF \E i \in 1..Len(parsed.parts) : parsed.parts[i].call
    THEN \* no variable of a conversion is callable
         [raised |-> "UndefinedError", val |-> <<>>]
    ELSE [raised |-> "none", val |-> RenderParts(env, parsed.parts, variables, 1)]

\* the match of \{\{\s*\__(\w+)\s*\}\} that starts at `open`
SpecialAt(s, open) ==
    LET j == SkipSpaces(s, open + 1)
        e == IF j <= Len(s) /\ s[j] = "__" THEN IdentEnd(s, j + 1) ELSE j
        k == SkipSpaces(s, e)
    IN IF /\ s[open] = "{{" /\ e > j + 1 /\ k <= Len(s) /\ s[k] = "}}"
       THEN [matched |-> TRUE, name |-> SubSeq(s, j + 1, e - 1), next |-> k + 1]
       ELSE [matched |-> FALSE, name |-> <<>>, next |-> open + 1]

\* re.search: the first position with a match at or after i, or 0
RECURSIVE SpecialSearch(_, _)
SpecialSearch(s, i) ==
    IF i > Len(s) THEN 0
    ELSE IF SpecialAt(s, i).matched THEN i ELSE SpecialSearch(s, i + 1)

\* re.sub(r'\{\{\s*\__\w+\s*\}\}', repl, s)
RECURSIVE SpecialSub(_, _, _)
SpecialSub(s, repl, i) ==
    IF i > Len(s) THEN <<>>
    ELSE LET m == SpecialAt(s, i) IN
         IF m.matched THEN repl \o SpecialSub(s, repl, m.next)
         ELSE <<s[i]>> \o SpecialSub(s, repl, i + 1)

\* default\s+['"]...['"] at position i, before position e: the index of the
\* string literal, or 0
DefaultLiteralAt(s, i, e) ==
    IF s[i] = "default" /\ i + 1 < e /\ IsSpace(s[i + 1])
    THEN LET q == SkipSpaces(s, i + 1) IN
         IF q < e /\ s[q] \in QuotedTokens THEN q ELSE 0
    ELSE 0

\* the inner re.sub of _preprocess_template on s[i..e-1]
RECURSIVE RewriteDefaults(_, _, _)
RewriteDefaults(s, i, e) ==
    IF i >= e THEN <<>>
    ELSE LET q == DefaultLiteralAt(s, i, e) IN
         IF q # 0 THEN <<"default", "(", Requote(s[q]), ")">> \o RewriteDefaults(s, q + 1, e)
         ELSE <<s[i]>> \o RewriteDefaults(s, i + 1, e)

\* _preprocess_template
RECURSIVE PreprocessTemplateFrom(_, _)
PreprocessTemplateFrom(s, i) ==
    IF i > Len(s) THEN <<>>
    ELSE
      LET e == IF s[i] = "{{" THEN NotBraceEnd(s, i + 1) ELSE 0
          matched == /\ s[i] = "{{" /\ e <= Len(s) /\ s[e] = "}}"
                     /\ \E d \in (i + 2)..(e - 1) : DefaultLiteralAt(s, d, e) # 0
      IN IF matched
         THEN <<"{{">> \o RewriteDefaults(s, i + 1, e) \o <<"}}">>
                \o PreprocessTemplateFrom(s, e + 1)
         ELSE <<s[i]>> \o PreprocessTemplateFrom(s, i + 1)

PreprocessTemplate(template_str) == PreprocessTemplateFrom(template_str, 1)

\* _fallback_render, first substitution: {{ name() }} calls the function of
\* converters/functions.py; an unknown name gives [FUNC_ERROR:name]
RECURSIVE FallbackCalls(_, _, _, _)
FallbackCalls(s, context, st, i) ==
    IF i > Len(s) THEN [st |-> st, val |-> <<>>]
    ELSE
      LET j == SkipSpaces(s, i + 1)
          e == IdentEnd(s, j)
          k == IF e < Len(s) THEN SkipSpaces(s, e + 2) ELSE e
          matched == /\ s[i] = "{{" /\ e > j /\ e < Len(s)
                     /\ s[e] = "(" /\ s[e + 1] = ")"
                     /\ k <= Len(s) /\ s[k] = "}}"
          func_name == SubSeq(s, j, e - 1)
      IN IF matched
         THEN LET called == IF func_name \in CONVERTER_FUNCTIONS
                            THEN CallFunction(func_name, context, st)
                            ELSE [st |-> st,
                                  val |-> <<"[FUNC_ERROR:">> \o func_name \o <<"]">>]
                  rest == FallbackCalls(s, context, called.st, k + 1)
              IN [st |-> rest.st, val |-> called.val \o rest.val]
         ELSE LET rest == FallbackCalls(s, context, st, i + 1)
              IN [st |-> rest.st, val |-> <<s[i]>> \o rest.val]

\* second substitution: {{ name }} without filter
RECURSIVE FallbackSimpleVars(_, _, _)
FallbackSimpleVars(s, variables, i) ==
    IF i > Len(s) THEN <<>>
    ELSE
      LET e == IF s[i] = "{{" THEN NotBraceOrBarEnd(s, i + 1) ELSE 0
          matched == s[i] = "{{" /\ e > i + 1 /\ e <= Len(s) /\ s[e] = "}}"
          var_name == Strip(SubSeq(s, i + 1, e - 1))
      IN IF matched
         THEN (IF VarsHas(variables, var_name)
               THEN PyStr(VarsGet(variables, var_name))
               ELSE <<"[MISSING:">> \o var_name \o <<"]">>)
              \o FallbackSimpleVars(s, variables, e + 1)
         ELSE <<s[i]>> \o FallbackSimpleVars(s, variables, i + 1)

\* replace_filtered_var
ReplaceFilteredVar(var_expr, variables) ==
    LET bar == FindTok(var_expr, "|", 1)
        var_name == Strip(IF bar = 0 THEN var_expr ELSE SubSeq(var_expr, 1, bar - 1))
        has == VarsHas(variables, var_name)
        missing == <<"[MISSING:">> \o var_name \o <<"]">>
        literals == {q \in 1..Len(var_expr) :
                        \E d \in 1..Len(var_expr) :
                            DefaultLiteralAt(var_expr, d, Len(var_expr) + 1) = q}
        Follows(name) == \E n \in 1..(Len(var_expr) - 2) :
                            /\ var_expr[n] = "|" /\ var_expr[n + 1] = " "
                            /\ var_expr[n + 2] = name
    IN IF Contains(var_expr, "default")
       THEN IF has /\ ~IsNull(VarsGet(variables, var_name))
            THEN PyStr(VarsGet(variables, var_name))
            ELSE IF literals # {}
            THEN Unquote(var_expr[CHOOSE q \in literals : \A r \in literals : q <= r])
            ELSE missing
       ELSE IF has
       THEN IF Follows("upper") THEN Upper(PyStr(VarsGet(variables, var_name)))
            ELSE IF Follows("lower") THEN Lower(PyStr(VarsGet(variables, var_name)))
            ELSE PyStr(VarsGet(variables, var_name))
       ELSE missing

\* third substitution: every remaining {{ ... }}
RECURSIVE FallbackFilteredVars(_, _, _)
FallbackFilteredVars(s, variables, i) ==
    IF i > Len(s) THEN <<>>
    ELSE
      LET e == IF s[i] = "{{" THEN NotBraceEnd(s, i + 1) ELSE 0
          matched == s[i] = "{{" /\ e > i + 1 /\ e <= Len(s) /\ s[e] = "}}"
      IN IF matched
         THEN ReplaceFilteredVar(Strip(SubSeq(s, i + 1, e - 1)), variables)
              \o FallbackFilteredVars(s, variables, e + 1)
         ELSE <<s[i]>> \o FallbackFilteredVars(s, variables, i + 1)

\* _fallback_render: [st, val]
FallbackRender(template_str, context, st) ==
    LET calls == FallbackCalls(template_str, context, st, 1) IN
    [st |-> calls.st,
     val |-> FallbackFilteredVars(
                FallbackSimpleVars(calls.val, context.variables, 1),
                context.variables, 1)]

\* How a registered function takes its arguments: the functions of
\* converters/functions.py take the context; "legacy" names a function
\* written for the four arguments that core/converter.py passes.
LegacyFunctions == { <<"func_", "legacy">> }
TakesContext(func_name) == func_name \in CONVERTER_FUNCTIONS

\* ConverterFunctionAdapter.call_converter_function: [raised, st, val]
CallConverterFunction(func_name, context, st) ==
    IF TakesContext(func_name)
    THEN LET called == CallFunction(func_name, context, st) IN
         [raised |-> "none", st |-> called.st, val |-> called.val]
    ELSE \* the TypeError of the call becomes a ValueError
         [raised |-> "ValueError", st |-> st, val |-> <<>>]

\* what the log of a rendering keeps of a call
Logged(st, func_name, context) ==
    [st EXCEPT !.calls = Append(st.calls, [func |-> func_name, context |-> context])]

\* TemplateRenderer._render_string of core/renderer.py: [raised, st, val]
RenderString(functions, template_str0, context, st) ==
    With(PreprocessTemplate(template_str0), LAMBDA template_str :
    With(SpecialSearch(template_str, 1), LAMBDA at :
    With(IF at = 0 THEN <<>> ELSE <<"func_">> \o SpecialAt(template_str, at).name,
         LAMBDA func_name :
    IF at # 0 /\ func_name \in functions
    THEN With(CallConverterFunction(func_name, context, Logged(st, func_name, context)),
              LAMBDA called :
              IF called.raised # "none" THEN called
              ELSE [raised |-> "none", st |-> called.st,
                    val |-> SpecialSub(template_str, called.val, 1)])
    ELSE With(JinjaRender("renderer", template_str, context.variables),
              LAMBDA rendered :
              IF rendered.raised = "none"
              THEN [raised |-> "none", st |-> st, val |-> rendered.val]
              ELSE With(FallbackRender(template_str, context, st),
                        LAMBDA fallback :
                        [raised |-> "none", st |-> fallback.st,
                         val |-> fallback.val])))))

\* TemplateRenderer._render_string of core/converter.py: [raised, val]
LegacyRenderString(functions, template_str, variables) ==
    With(SpecialSearch(template_str, 1), LAMBDA at :
    With(IF at = 0 THEN <<>> ELSE <<"func_">> \o SpecialAt(template_str, at).name,
         LAMBDA func_name :
    IF at # 0 /\ func_name \in functions
    THEN IF TakesContext(func_name)
         THEN \* four arguments for a function of one parameter
              [raised |-> "TypeError", val |-> <<>>]
         ELSE [raised |-> "none", val |-> SpecialSub(template_str, <<"LEGACY">>, 1)]
    ELSE With(JinjaRender("converter", template_str, variables), LAMBDA rendered :
              IF rendered.raised = "none" THEN [raised |-> "none", val |-> rendered.val]
              ELSE [raised |-> "none", val |-> template_str])))

(***************************************************************************)
(* core/renderer.py: TemplateRenderer                                      *)
(***************************************************************************)
\* f"{old_path}.{key}" if old_path else key
ChildPath(old_path, key) ==
    IF old_path \in {Null, Str(<<>>)} THEN Str(key)
    ELSE Str(old_path[2] \o <<".">> \o key)

\* _render_dict and _render_list.  The code renders in place and changes
\* the context as it goes: the result is [raised, st, val, context], val
\* the rendered data and context the context as the call leaves it.
RECURSIVE RenderDictFrom(_, _, _, _, _), RenderListFrom(_, _, _, _, _)
RenderDictFrom(functions, data, context, st, i) ==
    IF i > Len(data[2])
    THEN [raised |-> "none", st |-> st, val |-> data, context |-> context]
    ELSE
      LET key == data[2][i][1]
          value == data[2][i][2]
          old_path == context.current_path
          inner == [context EXCEPT !.current_path = ChildPath(old_path, key)]
      IN
      CASE IsStr(value) ->
             With(RenderString(functions, value[2], inner, st), LAMBDA r :
             IF r.raised # "none"
             THEN [raised |-> r.raised, st |-> r.st, val |-> data, context |-> inner]
             ELSE RenderDictFrom(functions, DictPut(data, key, Str(r.val)),
                                 context, r.st, i + 1))
        [] IsDict(value) ->
             With(RenderDictFrom(functions, value,
                                 [inner EXCEPT !.render_depth = @ + 1], st, 1),
                  LAMBDA r :
                  IF r.raised # "none" THEN r
                  ELSE RenderDictFrom(functions, DictPut(data, key, r.val),
                          [r.context EXCEPT !.render_depth = @ - 1,
                                            !.current_path = old_path],
                          r.st, i + 1))
        [] IsList(value) ->
             \* the path of the key stays in the context after the list
             With(RenderListFrom(functions, value, inner, st, 1), LAMBDA r :
             IF r.raised # "none" THEN r
             ELSE RenderDictFrom(functions, DictPut(data, key, r.val),
                                 r.context, r.st, i + 1))
        [] OTHER -> RenderDictFrom(functions, data, context, st, i + 1)

RenderListFrom(functions, data, context, st, i) ==
    IF i > Len(data[2])
    THEN [raised |-> "none", st |-> st, val |-> data, context |-> context]
    ELSE
      LET item == data[2][i]
          deeper == [context EXCEPT !.render_depth = @ + 1]
      IN
      CASE IsStr(item) ->
             With(RenderString(functions, item[2], context, st), LAMBDA r :
             IF r.raised # "none"
             THEN [raised |-> r.raised, st |-> r.st, val |-> data, context |-> context]
             ELSE RenderListFrom(functions, ListPut(data, i - 1, Str(r.val)),
                                 context, r.st, i + 1))
        [] IsDict(item) ->
             With(RenderDictFrom(functions, item, deeper, st, 1), LAMBDA r :
             IF r.raised # "none" THEN r
             ELSE RenderListFrom(functions, ListPut(data, i - 1, r.val),
                                 [r.context EXCEPT !.render_depth = @ - 1],
                                 r.st, i + 1))
        [] IsList(item) ->
             With(RenderListFrom(functions, item, deeper, st, 1), LAMBDA r :
             IF r.raised # "none" THEN r
             ELSE RenderListFrom(functions, ListPut(data, i - 1, r.val),
                                 [r.context EXCEPT !.render_depth = @ - 1],
                                 r.st, i + 1))
        [] OTHER -> RenderListFrom(functions, data, context, st, i + 1)

RenderDict(functions, data, context, st) ==
    RenderDictFrom(functions, data, context, st, 1)

\* _find_array_data_heuristic: [raised, val]
RECURSIVE FindArrayDataHeuristicFrom(_, _)
FindArrayDataHeuristicFrom(source_json, i) ==
    IF i > Len(source_json[2]) THEN Null
    ELSE LET value == source_json[2][i][2] IN
         IF /\ IsList(value) /\ Len(value[2]) > 0
            /\ ~(/\ Len(value[2]) = 1 /\ IsStr(value[2][1])
                 /\ StartsWith(value[2][1][2], "{#"))
         THEN value
         ELSE FindArrayDataHeuristicFrom(source_json, i + 1)

FindArrayDataHeuristic(source_json) ==
    IF ~IsDict(source_json) THEN [raised |-> "AttributeError", val |-> Null]
    ELSE [raised |-> "none", val |-> FindArrayDataHeuristicFrom(source_json, 1)]

\* _extract_variables_from_dict and _extract_variables_from_list, which
\* only matter by the error they raise: a dict value that Jinja2 cannot
\* parse, unless a list stands between (the list items are parsed in a try)
RECURSIVE TemplateParses(_)
TemplateParses(data) ==
    \A i \in 1..Len(data[2]) :
        LET value == data[2][i][2] IN
        CASE IsStr(value) -> JinjaParse(value[2]).ok
          [] IsDict(value) -> TemplateParses(value)
          [] IsList(value) ->
               LET RECURSIVE ItemsParse(_)
                   ItemsParse(lst) ==
                     \A j \in 1..Len(lst[2]) :
                        CASE IsDict(lst[2][j]) -> TemplateParses(lst[2][j])
                          [] IsList(lst[2][j]) -> ItemsParse(lst[2][j])
                          [] OTHER -> TRUE
               IN ItemsParse(value)
          [] OTHER -> TRUE

\* _collect_template_variables: the names, in order of appearance
RECURSIVE CollectTemplateVariables(_)
CollectTemplateVariables(template) ==
    CASE IsStr(template) ->
           LET parsed == JinjaParse(template[2]) IN
           IF parsed.ok THEN UndeclaredVariables(parsed) ELSE <<>>
      [] IsDict(template) ->
           LET RECURSIVE Over(_)
               Over(i) == IF i > Len(template[2]) THEN <<>>
                          ELSE CollectTemplateVariables(template[2][i][2]) \o Over(i + 1)
           IN Over(1)
      [] IsList(template) ->
           LET RECURSIVE Over(_)
               Over(i) == IF i > Len(template[2]) THEN <<>>
                          ELSE CollectTemplateVariables(template[2][i]) \o Over(i + 1)
           IN Over(1)
      [] OTHER -> <<>>

\* _extract_variables_from_item_data: [raised, val]
ExtractVariablesFromItemData(template_item, item_data) ==
    IF ~TemplateParses(template_item)
    THEN [raised |-> "TemplateSyntaxError", val |-> Dict(<<>>)]
    ELSE With(CollectTemplateVariables(template_item), LAMBDA template_vars :
         LET RECURSIVE Fill(_, _)
             Fill(variables, n) ==
                IF n > Len(template_vars) THEN variables
                ELSE Fill(IF DictHas(item_data, template_vars[n])
                          THEN DictPut(variables, template_vars[n],
                                       DictGet(item_data, template_vars[n]))
                          ELSE variables,
                          n + 1)
         IN [raised |-> "none", val |-> Fill(Dict(<<>>), 1)])

\* var_name.endswith(f"_{i}")
HasIndexSuffix(var_name, i) ==
    /\ Len(var_name) >= 2
    /\ SubSeq(var_name, Len(var_name) - 1, Len(var_name)) = <<"_", ToString(i)>>

\* the item_variables that the indexed variables give element i
RECURSIVE ItemVariables(_, _, _, _)
ItemVariables(variables, i, item_variables, n) ==
    IF n > Len(variables[2]) THEN item_variables
    ELSE LET var_name == variables[2][n][1] IN
         ItemVariables(variables, i,
            IF HasIndexSuffix(var_name, i)
            THEN DictPut(item_variables, SubSeq(var_name, 1, Len(var_name) - 2),
                         variables[2][n][2])
            ELSE item_variables,
            n + 1)

\* _set_nested_value: [raised, val]
RECURSIVE SetNestedValue(_, _, _)
SetNestedValue(data, path_parts, value) ==
    IF ~IsDict(data) THEN [raised |-> "TypeError", val |-> data]
    ELSE IF Len(path_parts) = 1
    THEN [raised |-> "none", val |-> DictPut(data, path_parts[1], value)]
    ELSE LET part == Head(path_parts)
             current == IF DictHas(data, part) THEN DictGet(data, part) ELSE Dict(<<>>)
         IN With(SetNestedValue(current, Tail(path_parts), value), LAMBDA sub :
                 IF sub.raised # "none" THEN [raised |-> sub.raised, val |-> data]
                 ELSE [raised |-> "none", val |-> DictPut(data, part, sub.val)])

\* json.dumps and json.loads of a value: what JSON keeps of it, which for
\* objects with string keys, lists, strings, numbers, booleans and null is
\* everything
RECURSIVE JsonValue(_)
JsonValue(obj) ==
    CASE IsDict(obj) -> Dict([i \in 1..Len(obj[2]) |-> <<obj[2][i][1], JsonValue(obj[2][i][2])>>])
      [] IsList(obj) -> List([i \in 1..Len(obj[2]) |-> JsonValue(obj[2][i])])
      [] OTHER -> obj

\* C20, a faulty variant: the object itself is what the rendering writes to
JsonCopyShared(obj) == [own |-> FALSE, val |-> obj]

\* json.loads(json.dumps(obj)): an object of its own, so that what is
\* written to it does not reach obj
JsonCopy(obj) == [own |-> TRUE, val |-> JsonValue(obj)]

\* what marker.template_item holds: the item of the template, or what a
\* rendering has written over it
ItemTemplateNow(marker, st) ==
    LET written == SelectSeq(st.written, LAMBDA w : w.field_path = marker.field_path) IN
    IF written = <<>> THEN marker.template_item
    ELSE written[Len(written)].template_item

\* the state after an item was rendered into rendered_item
AfterItem(st, marker, rendered_item, val) ==
    IF rendered_item.own THEN st
    ELSE [st EXCEPT !.written = Append(@, [field_path |-> marker.field_path,
                                           template_item |-> val])]

\* the loop of _render_dynamic_array over the elements from index i on:
\* [raised, st, val], val the rendered items
RECURSIVE RenderArrayItems(_, _, _, _, _, _, _)
RenderArrayItems(functions, marker, base_context, array_data, st, i, rendered_items) ==
    IF i >= Len(array_data[2])
    THEN [raised |-> "none", st |-> st, val |-> rendered_items]
    ELSE
      LET item_data == array_data[2][i + 1] IN
      With(ItemVariables(base_context.variables, i, Dict(<<>>), 1), LAMBDA indexed :
      With(IF indexed[2] = <<>> /\ IsDict(item_data)
           THEN ExtractVariablesFromItemData(ItemTemplateNow(marker, st), item_data)
           ELSE [raised |-> "none", val |-> indexed],
           LAMBDA from_item :
      IF from_item.raised # "none"
      THEN [raised |-> from_item.raised, st |-> st, val |-> rendered_items]
      ELSE With(JsonCopy(ItemTemplateNow(marker, st)), LAMBDA rendered_item :
           With(RenderDict(functions, rendered_item.val,
                  ConversionContext(
                    [source_protocol |-> base_context.source_protocol,
                     target_protocol |-> base_context.target_protocol,
                     source_json |-> base_context.source_json,
                     variables |-> from_item.val,
                     array_path |-> Str(marker.field_path),
                     array_index |-> Num(i),
                     array_total |-> Num(Len(array_data[2])),
                     current_element |-> IF IsDict(item_data) THEN item_data ELSE Null,
                     render_depth |-> base_context.render_depth + 1,
                     parent_path |-> base_context.current_path,
                     source_protocol_id |-> base_context.source_protocol_id,
                     target_protocol_id |-> base_context.target_protocol_id,
                     protocol_family |-> base_context.protocol_family,
                     processed_items |-> i],
                    NextUuid(st)),
                  Drawn(st)),
                LAMBDA r :
                IF r.raised # "none"
                THEN [raised |-> r.raised, st |-> r.st, val |-> rendered_items]
                ELSE RenderArrayItems(functions, marker, base_context, array_data,
                                      AfterItem(r.st, marker, rendered_item, r.val),
                                      i + 1, Append(rendered_items, r.val))))))

\* _render_dynamic_array: [raised, st, val], val the result after the call
RenderDynamicArray(functions, result, marker, base_context, st) ==
    With(GetNestedValue(base_context.source_json, SplitOn(marker.field_path, ".")),
         LAMBDA at_path :
    With(IF IsList(at_path) THEN [raised |-> "none", val |-> at_path]
         ELSE FindArrayDataHeuristic(base_context.source_json),
         LAMBDA found :
    IF found.raised # "none"
    THEN [raised |-> found.raised, st |-> st, val |-> result]
    ELSE IF ~IsList(found.val)
    THEN [raised |-> "none", st |-> st, val |-> result]
    ELSE With(RenderArrayItems(functions, marker, base_context, found.val, st, 0, <<>>),
              LAMBDA items :
              IF items.raised # "none"
              THEN [raised |-> items.raised, st |-> items.st, val |-> result]
              ELSE With(SetNestedValue(result, SplitOn(marker.field_path, "."),
                                       List(items.val)),
                        LAMBDA set :
                        [raised |-> set.raised, st |-> items.st, val |-> set.val]))))

RECURSIVE RenderMarkers(_, _, _, _, _, _)
RenderMarkers(functions, result, array_markers, context, st, m) ==
    IF m > Len(array_markers) THEN [raised |-> "none", st |-> st, val |-> result]
    ELSE IF ~array_markers[m].is_dynamic
    THEN RenderMarkers(functions, result, array_markers, context, st, m + 1)
    ELSE With(RenderDynamicArray(functions, result, array_markers[m], context, st),
              LAMBDA r :
              IF r.raised # "none" THEN r
              ELSE RenderMarkers(functions, r.val, array_markers, context, r.st, m + 1))

\* TemplateRenderer.render, without placeholders: [raised, val, calls,
\* template, written].  rnd lists the draws of uuid4 that the rendering makes,
\* in order; template is what the object given as template holds after the
\* call, and written lists the item templates of markers that were written
\* to.  Nothing in the rendering assigns into source_json.
Render(functions, template, variables, source_protocol, target_protocol, source_json, array_markers, source_protocol_id, target_protocol_id, rnd) ==
    LET st0 == [rnd |-> rnd, used |-> 0, calls |-> <<>>, written |-> <<>>] IN
    With(ConversionContext(
           [source_protocol |-> source_protocol,
            target_protocol |-> target_protocol,
            source_json |-> source_json,
            variables |-> variables,
            source_protocol_id |-> source_protocol_id,
            target_protocol_id |-> target_protocol_id],
           NextUuid(st0)),
         LAMBDA context :
    With(JsonCopy(template), LAMBDA result :
    With(RenderMarkers(functions, result.val, array_markers, context, Drawn(st0), 1),
         LAMBDA arrays :
    IF arrays.raised # "none"
    THEN [raised |-> arrays.raised, val |-> Null, calls |-> arrays.st.calls,
          template |-> IF result.own THEN template ELSE arrays.val,
          written |-> arrays.st.written]
    ELSE With(RenderDict(functions, arrays.val, context, arrays.st), LAMBDA r :
              [raised |-> r.raised,
               val |-> IF r.raised = "none" THEN r.val ELSE Null,
               calls |-> r.st.calls,
               template |-> IF result.own THEN template
                            ELSE IF r.raised = "none" THEN r.val ELSE arrays.val,
               written |-> r.st.written]))))

(***************************************************************************)
(* core/converter.py: TemplateRenderer                                     *)
(***************************************************************************)
\* _render_dict and _render_list: [raised, val]
RECURSIVE LegacyRenderDictFrom(_, _, _, _), LegacyRenderListFrom(_, _, _, _)
LegacyRenderDictFrom(functions, data, variables, i) ==
    IF i > Len(data[2]) THEN [raised |-> "none", val |-> data]
    ELSE
      LET key == data[2][i][1]
          value == data[2][i][2]
      IN
      With(CASE IsStr(value) ->
                  With(LegacyRenderString(functions, value[2], variables), LAMBDA str :
                       [raised |-> str.raised, val |-> Str(str.val)])
             [] IsDict(value) -> LegacyRenderDictFrom(functions, value, variables, 1)
             [] IsList(value) -> LegacyRenderListFrom(functions, value, variables, 1)
             [] OTHER -> [raised |-> "none", val |-> value],
           LAMBDA r :
           IF r.raised # "none" THEN [raised |-> r.raised, val |-> data]
           ELSE LegacyRenderDictFrom(functions, DictPut(data, key, r.val),
                                     variables, i + 1))

LegacyRenderListFrom(functions, data, variables, i) ==
    IF i > Len(data[2]) THEN [raised |-> "none", val |-> data]
    ELSE
      LET item == data[2][i] IN
      With(CASE IsStr(item) ->
                  With(LegacyRenderString(functions, item[2], variables), LAMBDA str :
                       [raised |-> str.raised, val |-> Str(str.val)])
             [] IsDict(item) -> LegacyRenderDictFrom(functions, item, variables, 1)
             [] IsList(item) -> LegacyRenderListFrom(functions, item, variables, 1)
             [] OTHER -> [raised |-> "none", val |-> item],
           LAMBDA r :
           IF r.raised # "none" THEN [raised |-> r.raised, val |-> data]
           ELSE LegacyRenderListFrom(functions, ListPut(data, i - 1, r.val),
                                     variables, i + 1))

\* the loop of _render_dynamic_array: [raised, val], val the rendered items
RECURSIVE LegacyRenderArrayItems(_, _, _, _, _, _)
LegacyRenderArrayItems(functions, marker, variables, array_data, i, rendered_items) ==
    IF i >= Len(array_data[2]) THEN [raised |-> "none", val |-> rendered_items]
    ELSE With(LegacyRenderDictFrom(functions, marker.template_item,
                                   ItemVariables(variables, i, Dict(<<>>), 1), 1),
              LAMBDA r :
              IF r.raised # "none" THEN [raised |-> r.raised, val |-> rendered_items]
              ELSE LegacyRenderArrayItems(functions, marker, variables, array_data,
                                          i + 1, Append(rendered_items, r.val)))

\* _render_dynamic_array: [raised, val], val the result after the call
LegacyRenderDynamicArray(functions, result, marker, variables, source_json) ==
    With(GetNestedValue(source_json, SplitOn(marker.field_path, ".")),
         LAMBDA array_data :
    IF ~IsList(array_data) THEN [raised |-> "none", val |-> result]
    ELSE With(LegacyRenderArrayItems(functions, marker, variables, array_data, 0, <<>>),
              LAMBDA items :
              IF items.raised # "none" THEN [raised |-> items.raised, val |-> result]
              ELSE SetNestedValue(result, SplitOn(marker.field_path, "."),
                                  List(items.val))))

RECURSIVE LegacyRenderMarkers(_, _, _, _, _, _)
LegacyRenderMarkers(functions, result, array_markers, variables, source_json, m) ==
    IF m > Len(array_markers) THEN [raised |-> "none", val |-> result]
    ELSE IF ~array_markers[m].is_dynamic
    THEN LegacyRenderMarkers(functions, result, array_markers, variables, source_json, m + 1)
    ELSE With(LegacyRenderDynamicArray(functions, result, array_markers[m],
                                       variables, source_json),
              LAMBDA r :
              IF r.raised # "none" THEN r
              ELSE LegacyRenderMarkers(functions, r.val, array_markers, variables,
                                       source_json, m + 1))

\* TemplateRenderer.render of core/converter.py: [raised, val]
LegacyRender(functions, template, variables, source_protocol, target_protocol, source_json, array_markers) ==
    With(LegacyRenderMarkers(functions, template, array_markers, variables,
                             source_json, 1),
         LAMBDA arrays :
    IF arrays.raised # "none" THEN [raised |-> arrays.raised, val |-> Null]
    ELSE With(LegacyRenderDictFrom(functions, arrays.val, variables, 1), LAMBDA r :
              [raised |-> r.raised,
               val |-> IF r.raised = "none" THEN r.val ELSE Null]))

(***************************************************************************)
(* core/converter.py: ProtocolMatcher and ProtocolConverter                *)
(***************************************************************************)
\* ConversionResult(...): the fields not given are None
ConversionResult(success, result, matched_protocol, variables, error) ==
    [success |-> success, result |-> result, matched_protocol |-> matched_protocol,
     variables |-> variables, error |-> error]

\* C30, a faulty variant: an id that is registered again goes to the end
AddProtocolAtEnd(protocols, protocol) ==
    Append(SelectSeq(protocols, LAMBDA p : p.protocol_id # protocol.protocol_id),
           protocol)

\* ProtocolMatcher.add_protocol: protocols[protocol.protocol_id] = protocol,
\* on a dict kept as the sequence of its values in insertion order
AddProtocol(protocols, protocol) ==
    IF \E i \in 1..Len(protocols) : protocols[i].protocol_id = protocol.protocol_id
    THEN [i \in 1..Len(protocols) |->
            IF protocols[i].protocol_id = protocol.protocol_id
            THEN protocol ELSE protocols[i]]
    ELSE Append(protocols, protocol)

\* self.matcher.protocols.get(protocol_id): <<protocol>>, or <<>> for None
GetProtocol(protocols, protocol_id) ==
    SelectSeq(protocols, LAMBDA p : p.protocol_id = protocol_id)

\* ProtocolMatcher.match_protocol: [raised, val], val the protocol id that
\* matched, <<>> for None
RECURSIVE MatchProtocolFrom(_, _, _)
MatchProtocolFrom(family_protocols, json_data, i) ==
    IF i > Len(family_protocols) THEN [raised |-> "none", val |-> <<>>]
    ELSE With(LegacyIsMatch(family_protocols[i].template_content, json_data),
              LAMBDA is_match :
              IF is_match.raised # "none" THEN [raised |-> is_match.raised, val |-> <<>>]
              ELSE IF is_match.val
              THEN [raised |-> "none", val |-> family_protocols[i].protocol_id]
              ELSE MatchProtocolFrom(family_protocols, json_data, i + 1))

\* C3, a faulty variant: the protocols of every family are tried
MatchProtocolOfAnyFamily(protocols, protocol_family, json_data) ==
    MatchProtocolFrom(protocols, json_data, 1)

MatchProtocol(protocols, protocol_family, json_data) ==
    MatchProtocolFrom(
        SelectSeq(protocols, LAMBDA p : p.protocol_family = protocol_family),
        json_data, 1)

\* ProtocolMatcher.match_protocol of core/matcher.py, whose _is_match
\* returns a bool: [raised, val]
RECURSIVE MatcherMatchProtocolFrom(_, _, _)
MatcherMatchProtocolFrom(family_protocols, json_data, i) ==
    IF i > Len(family_protocols) THEN [raised |-> "none", val |-> <<>>]
    ELSE IF IsMatch(family_protocols[i].template_content, json_data)
    THEN [raised |-> "none", val |-> family_protocols[i].protocol_id]
    ELSE MatcherMatchProtocolFrom(family_protocols, json_data, i + 1)

MatcherMatchProtocol(protocols, protocol_family, json_data) ==
    MatcherMatchProtocolFrom(
        SelectSeq(protocols, LAMBDA p : p.protocol_family = protocol_family),
        json_data, 1)

\* ProtocolConverter._extract_template_variables and
\* _extract_special_variables: the names of a template, as sets
TemplateVariables(template) ==
    With(CollectTemplateVariables(template), LAMBDA names :
         { names[i] : i \in { j \in 1..Len(names) : ~IsSpecialName(names[j]) } })

SpecialVariables(template) ==
    With(CollectTemplateVariables(template), LAMBDA names :
         { names[i] : i \in { j \in 1..Len(names) : IsSpecialName(names[j]) } })

\* ProtocolConverter.load_protocol: [raised, val], val the protocols after
\* the call.  A string value of a dict that Jinja2 cannot parse raises.
LoadProtocol(protocols, protocol_id, protocol_family, template_content) ==
    IF ~TemplateParses(template_content)
    THEN [raised |-> "TemplateSyntaxError", val |-> protocols]
    ELSE [raised |-> "none",
          val |-> AddProtocol(protocols,
                    [protocol_id |-> protocol_id,
                     protocol_family |-> protocol_family,
                     template_content |-> template_content,
                     variables |-> TemplateVariables(template_content),
                     special_variables |-> SpecialVariables(template_content),
                     array_markers |-> ParseArrayMarkers(template_content)])]

\* C4, a faulty variant: the first protocol of the target family is taken
FindFirstOfFamily(protocols, target_protocol_family, source_protocol_id) ==
    LET family == SelectSeq(protocols,
                     LAMBDA p : p.protocol_family = target_protocol_family)
    IN IF family = <<>> THEN <<>> ELSE <<family[1]>>

\* ProtocolConverter._find_target_protocol: <<protocol>>, or <<>> for None
FindTargetProtocol(protocols, target_protocol_family, source_protocol_id) ==
    LET parts == SplitOn(source_protocol_id, "-")
        source_number == parts[Len(parts)]
        target_protocol_id == target_protocol_family \o <<"-">> \o source_number
    IN GetProtocol(protocols, target_protocol_id)

\* the try block of ProtocolConverter.convert: [raised, val], val the
\* ConversionResult returned when nothing is raised.  str(e) of an
\* exception is kept as the name of its type.
ConvertTry(functions, protocols, source_protocol, target_protocol, source_json) ==
    With(MatchProtocol(protocols, source_protocol, source_json), LAMBDA matched :
    IF matched.raised # "none" THEN [raised |-> matched.raised, val |-> Null]
    ELSE IF matched.val = <<>>
    THEN [raised |-> "none",
          val |-> ConversionResult(FALSE, Null, Null, Null,
                     Str(<<"No matching protocol found for ">> \o source_protocol))]
    ELSE
      LET matched_protocol_id == matched.val
          source_protocol_template == GetProtocol(protocols, matched_protocol_id)[1]
      IN
      With(ExtractVariables(source_protocol_template.template_content, source_json,
                            source_protocol_template.array_markers),
           LAMBDA variables :
      With(FindTargetProtocol(protocols, target_protocol, matched_protocol_id),
           LAMBDA target_protocol_template :
      IF variables.raised # "none" THEN [raised |-> variables.raised, val |-> Null]
      ELSE IF target_protocol_template = <<>>
      THEN [raised |-> "none",
            val |-> ConversionResult(FALSE, Null, Null, Null,
                       Str(<<"No corresponding target protocol found for ">>
                           \o matched_protocol_id))]
      ELSE With(LegacyRender(functions,
                             target_protocol_template[1].template_content,
                             variables.val, source_protocol, target_protocol,
                             source_json, target_protocol_template[1].array_markers),
                LAMBDA result :
                IF result.raised # "none" THEN [raised |-> result.raised, val |-> Null]
                ELSE [raised |-> "none",
                      val |-> ConversionResult(TRUE, result.val,
                                 Str(matched_protocol_id), variables.val, Null)]))))

\* C2, a faulty variant: convert without its except clause
ConvertWithoutExcept(functions, protocols, source_protocol, target_protocol, source_json) ==
    ConvertTry(functions, protocols, source_protocol, target_protocol, source_json)

\* ProtocolConverter.convert: [raised, val]
Convert(functions, protocols, source_protocol, target_protocol, source_json) ==
    With(ConvertTry(functions, protocols, source_protocol, target_protocol, source_json),
         LAMBDA try :
         IF try.raised = "none" THEN try
         ELSE [raised |-> "none",
               val |-> ConversionResult(FALSE, Null, Null, Null, Str(<<try.raised>>))])

(***************************************************************************)
(* core/field_mapper.py: the processors.  The characters that the          *)
(* patterns of split_intersection name are tokens of their own.            *)
(***************************************************************************)
YU == "yu"  \* the character U+4E0E, "with"
HE == "he"  \* the character U+548C, "and"
JI == "ji"  \* the character U+53CA, "and"

\* re.split(pattern, value) for a pattern that matches one token of seps
RECURSIVE ReSplit(_, _)
ReSplit(value, seps) ==
    IF \A i \in 1..Len(value) : value[i] \notin seps THEN <<value>>
    ELSE LET at == CHOOSE i \in 1..Len(value) :
                     /\ value[i] \in seps
                     /\ \A j \in 1..(i - 1) : value[j] \notin seps
         IN <<SubSeq(value, 1, at - 1)>> \o ReSplit(SubSeq(value, at + 1, Len(value)), seps)

\* the loop of split_intersection over its patterns.  The third and the
\* fourth pattern need HE or YU in the value, on which the first pattern
\* has split already, so the loop never returns at them.
RECURSIVE SplitByPatterns(_, _)
SplitByPatterns(value, patterns) ==
    IF patterns = <<>> THEN List(<<Str(value), Str(<<>>)>>)
    ELSE LET parts == ReSplit(value, Head(patterns)) IN
         IF Len(parts) >= 2 THEN List(<<Str(Strip(parts[1])), Str(Strip(parts[2]))>>)
         ELSE SplitByPatterns(value, Tail(patterns))

\* split_intersection(value)
split_intersection(value) ==
    IF ~IsStr(value) THEN List(<<Str(PyStr(value)), Str(<<>>)>>)
    ELSE SplitByPatterns(value[2], << {YU, HE, JI}, {"-"} >>)

\* combine_intersection(primary, secondary)
combine_intersection(primary, secondary) ==
    IF Truthy(primary) /\ Truthy(secondary)
    THEN Str(PyStr(primary) \o <<YU>> \o PyStr(secondary))
    ELSE IF Truthy(primary) THEN primary
    ELSE IF Truthy(secondary) THEN secondary
    ELSE Str(<<>>)

(***************************************************************************)
(* core/field_mapper.py: FieldMapper.process_mapping.  A rule is the       *)
(* record [name, config]; config is the dict of the rule, whose 'from' and *)
(* 'to' are a path or a list of paths.  A path is the token sequence of    *)
(* its keys and the dots between them.                                     *)
(***************************************************************************)
KFrom == <<"from">>
KTo == <<"to">>
KProcessor == <<"processor">>

\* dict.get(key)
DictGetOrNull(d, key) == IF DictHas(d, key) THEN DictGet(d, key) ELSE Null

\* _get_nested_value of the field mapper
RECURSIVE FieldGetNestedValue(_, _)
FieldGetNestedValue(data, path_parts) ==
    IF path_parts = <<>> THEN data
    ELSE IF IsDict(data) /\ DictHas(data, Head(path_parts))
    THEN FieldGetNestedValue(DictGet(data, Head(path_parts)), Tail(path_parts))
    ELSE Null

\* _extract_field_value(field_path, mapping_vars, source_data)
ExtractFieldValue(field_path, mapping_vars, source_data) ==
    IF DictHas(mapping_vars, field_path[2]) THEN DictGet(mapping_vars, field_path[2])
    ELSE FieldGetNestedValue(source_data, SplitOn(field_path[2], "."))

\* self.processors of load_default_mappings
DefaultProcessors == {"split_intersection", "combine_intersection", "direct_mapping"}

\* processor(*source_values): split_intersection and the lambda of
\* direct_mapping take one value, combine_intersection one or two
CallProcessor(processor_name, source_values) ==
    CASE processor_name = "split_intersection" ->
           IF Len(source_values) = 1 THEN Returned(split_intersection(source_values[1]))
           ELSE Raised("TypeError")
      [] processor_name = "combine_intersection" ->
           IF Len(source_values) = 1
           THEN Returned(combine_intersection(source_values[1], Str(<<>>)))
           ELSE IF Len(source_values) = 2
           THEN Returned(combine_intersection(source_values[1], source_values[2]))
           ELSE Raised("TypeError")
      [] OTHER ->
           IF Len(source_values) = 1 THEN Returned(source_values[1])
           ELSE Raised("TypeError")

\* dict(zip(target_path, result_value)), from pair i on
RECURSIVE ZipFrom(_, _, _, _)
ZipFrom(target_path, result_value, i, d) ==
    IF i > Len(target_path) \/ i > Len(result_value) THEN d
    ELSE ZipFrom(target_path, result_value, i + 1,
                 DictPut(d, target_path[i][2], result_value[i]))

\* {path: result_value for path in target_path}, from path i on
RECURSIVE BroadcastFrom(_, _, _, _)
BroadcastFrom(target_path, result_value, i, d) ==
    IF i > Len(target_path) THEN d
    ELSE BroadcastFrom(target_path, result_value, i + 1,
                       DictPut(d, target_path[i][2], result_value))

\* what _process_single_mapping returns for the result of the processor;
\* several tells the branch of a list of sources from that of one source
Scatter(several, target_path, result_value) ==
    IF several
    THEN IF IsStr(target_path)
         THEN Returned(Dict(<< <<target_path[2], result_value>> >>))
         ELSE IF IsList(target_path)
         THEN IF IsList(result_value)
              THEN Returned(ZipFrom(target_path[2], result_value[2], 1, Dict(<<>>)))
              ELSE IF target_path[2] = <<>> THEN Raised("IndexError")
              ELSE Returned(Dict(<< <<target_path[2][1][2], result_value>> >>))
         ELSE Returned(Dict(<<>>))
    ELSE IF ~Truthy(target_path) THEN Returned(Dict(<<>>))
         ELSE IF IsStr(target_path)
         THEN Returned(Dict(<< <<target_path[2], result_value>> >>))
         ELSE IF IsList(target_path)
         THEN Returned(IF IsList(result_value)
                       THEN ZipFrom(target_path[2], result_value[2], 1, Dict(<<>>))
                       ELSE BroadcastFrom(target_path[2], result_value, 1, Dict(<<>>)))
         ELSE Returned(Dict(<<>>))

\* _process_single_mapping(source_pattern, rule, mapping_vars, source_data)
ProcessSingleMapping(processors, source_pattern, rule, mapping_vars, source_data) ==
    LET processor_name == IF DictHas(rule, KProcessor) THEN DictGet(rule, KProcessor)[2][1]
                          ELSE "direct_mapping"
        source_values == IF IsList(source_pattern)
                         THEN [i \in 1..Len(source_pattern[2]) |->
                                 ExtractFieldValue(source_pattern[2][i], mapping_vars, source_data)]
                         ELSE << ExtractFieldValue(source_pattern, mapping_vars, source_data) >>
    IN
    IF processor_name \notin processors THEN Returned(Dict(<<>>))
    ELSE IF ~IsList(source_pattern) /\ ~IsStr(source_pattern) THEN Returned(Dict(<<>>))
    ELSE With(CallProcessor(processor_name, source_values), LAMBDA called :
         IF called.raised # "none" THEN called
         ELSE Scatter(IsList(source_pattern), DictGetOrNull(rule, KTo), called.val))

\* mapped_vars.update(result)
RECURSIVE DictUpdateFrom(_, _, _)
DictUpdateFrom(d, other, i) ==
    IF i > Len(other[2]) THEN d
    ELSE DictUpdateFrom(DictPut(d, other[2][i][1], other[2][i][2]), other, i + 1)

\* the body of the loop of process_mapping for one rule, the try included:
\* [skipped, raised, val], val the result of the rule
RuleOutcome(processors, rule, mapping_vars, source_data) ==
    LET source_pattern == DictGetOrNull(rule.config, KFrom) IN
    IF ~Truthy(source_pattern)
    THEN [name |-> rule.name, skipped |-> TRUE, raised |-> "none", val |-> Dict(<<>>)]
    ELSE With(ProcessSingleMapping(processors, source_pattern, rule.config, mapping_vars, source_data),
              LAMBDA result :
              [name |-> rule.name, skipped |-> FALSE, raised |-> result.raised,
               val |-> IF result.raised = "none" THEN result.val ELSE Dict(<<>>)])

\* C22, a faulty variant: the loop without its try, which the first
\* failing rule ends
RECURSIVE ProcessRulesUnguarded(_, _, _, _, _, _)
ProcessRulesUnguarded(processors, mapping_rules, mapping_vars, source_data, mapped_vars, outcomes) ==
    IF mapping_rules = <<>>
    THEN [raised |-> "none", val |-> mapped_vars, outcomes |-> outcomes]
    ELSE With(RuleOutcome(processors, Head(mapping_rules), mapping_vars, source_data),
              LAMBDA o :
              IF o.raised # "none"
              THEN [raised |-> o.raised, val |-> Null, outcomes |-> Append(outcomes, o)]
              ELSE ProcessRulesUnguarded(processors, Tail(mapping_rules), mapping_vars, source_data,
                                         DictUpdateFrom(mapped_vars, o.val, 1),
                                         Append(outcomes, o)))

\* the loop of process_mapping over the rules: [raised, val, outcomes]
RECURSIVE ProcessRules(_, _, _, _, _, _)
ProcessRules(processors, mapping_rules, mapping_vars, source_data, mapped_vars, outcomes) ==
    IF mapping_rules = <<>>
    THEN [raised |-> "none", val |-> mapped_vars, outcomes |-> outcomes]
    ELSE With(RuleOutcome(processors, Head(mapping_rules), mapping_vars, source_data),
              LAMBDA o :
              ProcessRules(processors, Tail(mapping_rules), mapping_vars, source_data,
                           IF o.raised = "none" THEN DictUpdateFrom(mapped_vars, o.val, 1)
                           ELSE mapped_vars,
                           Append(outcomes, o)))

\* the defaults of the target protocol that neither map holds yet
RECURSIVE AddDefaultsFrom(_, _, _, _)
AddDefaultsFrom(mapped_vars, mapping_vars, defaults, i) ==
    IF i > Len(defaults[2]) THEN mapped_vars
    ELSE LET key == defaults[2][i][1] IN
         AddDefaultsFrom(IF ~DictHas(mapped_vars, key) /\ ~DictHas(mapping_vars, key)
                         THEN DictPut(mapped_vars, key, defaults[2][i][2])
                         ELSE mapped_vars,
                         mapping_vars, defaults, i + 1)

\* the rules of mapping_config under "source <-> target" or, without
\* them, under "target <-> source": <<>> or <<rules>>
MappingRulesOf(mapping_config, source_protocol, target_protocol) ==
    LET under(a, b) == SelectSeq(mapping_config, LAMBDA e : e.left = a /\ e.right = b) IN
    IF under(source_protocol, target_protocol) # <<>>
    THEN << under(source_protocol, target_protocol)[1].rules >>
    ELSE IF under(target_protocol, source_protocol) # <<>>
    THEN << under(target_protocol, source_protocol)[1].rules >>
    ELSE <<>>

\* process_mapping(mapping_vars, source_protocol, target_protocol, source_data):
\* [raised, val, outcomes]
ProcessMapping(mapper, mapping_vars, source_protocol, target_protocol, source_data) ==
    LET found == MappingRulesOf(mapper.mapping_config, source_protocol, target_protocol)
        defaults == SelectSeq(mapper.defaults, LAMBDA e : e.protocol = target_protocol)
    IN
    IF found = <<>> THEN [raised |-> "none", val |-> mapping_vars, outcomes |-> <<>>]
    ELSE With(ProcessRules(mapper.processors, found[1], mapping_vars, source_data, Dict(<<>>), <<>>),
              LAMBDA looped :
              IF looped.raised # "none" THEN looped
              ELSE [looped EXCEPT !.val =
                      IF defaults = <<>> THEN looped.val
                      ELSE AddDefaultsFrom(looped.val, mapping_vars, defaults[1].values, 1)])

(***************************************************************************)
(* utils/yaml_processor.py: YamlProcessor.protect_jinja_syntax.  The       *)
(* placeholder map is the list of its entries in insertion order; the      *)
(* state of the processor is [counter, map].                               *)
(***************************************************************************)
\* f"__JINJA_PLACEHOLDER_{n}__"
PlaceholderId(n) == <<"__JINJA_PLACEHOLDER_", ToString(n), "__">>

\* the tokens that hold a character which the group of a pattern excludes
VariableStops == {"{{", "}}", "{#", "#}", "{%", "%}", "{", "}"}
StatementStops == {"{%", "%}"}
CommentStops == {"{#", "#}", "#"}

\* the index of the first token at or after i that is in stops, or 0
RECURSIVE FirstStop(_, _, _)
FirstStop(text, stops, i) ==
    IF i > Len(text) THEN 0
    ELSE IF text[i] \in stops THEN i ELSE FirstStop(text, stops, i + 1)

\* pattern.finditer(text) from token i on, for the pattern that opens with
\* open, closes with close and takes at least least tokens that are not
\* in stops between them: the matches as [start, end], in order
RECURSIVE FindIter(_, _, _, _, _, _)
FindIter(text, open, close, stops, least, i) ==
    LET start == FindTok(text, open, i) IN
    IF start = 0 THEN <<>>
    ELSE LET end == FirstStop(text, stops, start + 1) IN
         IF end # 0 /\ text[end] = close /\ end - start - 1 >= least
         THEN <<[start |-> start, end |-> end]>>
              \o FindIter(text, open, close, stops, least, end + 1)
         ELSE FindIter(text, open, close, stops, least, start + 1)

\* the replacements that _protect_string collects, in the order of the
\* three patterns: [start, end, type, content]
Replacements(text) ==
    LET variables == FindIter(text, "{{", "}}", VariableStops, 1, 1)
        statements == FindIter(text, "{%", "%}", StatementStops, 0, 1)
        comments == FindIter(text, "{#", "#}", CommentStops, 0, 1)
    IN [n \in 1..Len(variables) |->
          [start |-> variables[n].start, end |-> variables[n].end, type |-> "variable",
           content |-> SubSeq(text, variables[n].start, variables[n].end)]]
       \o [n \in 1..Len(statements) |->
          [start |-> statements[n].start, end |-> statements[n].end, type |-> "statement",
           content |-> SubSeq(text, statements[n].start, statements[n].end)]]
       \o [n \in 1..Len(comments) |->
          [start |-> comments[n].start, end |-> comments[n].end, type |-> "comment",
           content |-> <<"#", " ">>
                       \o Strip(SubSeq(text, comments[n].start + 1, comments[n].end - 1))]]

\* replacements.sort(key=lambda x: x[0], reverse=True)
RECURSIVE SortByStartReverse(_)
SortByStartReverse(replacements) ==
    IF replacements = <<>> THEN <<>>
    ELSE LET first == Head(replacements) IN
         SortByStartReverse(SelectSeq(Tail(replacements), LAMBDA r : r.start > first.start))
         \o <<first>>
         \o SortByStartReverse(SelectSeq(Tail(replacements), LAMBDA r : r.start <= first.start))

\* _create_placeholder(content, jinja_type, location): the state afterwards
CreatePlaceholder(st, content, jinja_type, location) ==
    LET id == PlaceholderId(st.counter + 1)
        info == [id |-> id, original_content |-> content, placeholder |-> id,
                 type |-> jinja_type, location |-> location]
    IN [counter |-> st.counter + 1,
        map |-> IF \E n \in 1..Len(st.map) : st.map[n].id = id
                THEN [n \in 1..Len(st.map) |-> IF st.map[n].id = id THEN info ELSE st.map[n]]
                ELSE Append(st.map, info)]

\* the loop of _protect_string over the sorted replacements: [val, st]
RECURSIVE ReplaceFrom(_, _, _, _)
ReplaceFrom(result, replacements, context_path, st) ==
    IF replacements = <<>> THEN [val |-> result, st |-> st]
    ELSE LET r == Head(replacements)
             made == CreatePlaceholder(st, r.content, r.type, context_path)
         IN ReplaceFrom(SubSeq(result, 1, r.start - 1) \o PlaceholderId(made.counter)
                          \o SubSeq(result, r.end + 1, Len(result)),
                        Tail(replacements), context_path, made)

\* _protect_string(text, context_path): [val, st].  Matches that lie in
\* one another are replaced by character positions that no longer hold;
\* the strings of the model have none.
ProtectString(text, context_path, st) ==
    LET done == ReplaceFrom(text, SortByStartReverse(Replacements(text)), context_path, st)
    IN [val |-> Str(done.val), st |-> done.st]

\* f"{context_path}[{i}]"
JoinIndex(context_path, i) == context_path \o <<"[", ToString(i), "]">>

\* _protect_recursive(data, context_path): [val, st]
RECURSIVE ProtectRecursive(_, _, _)
RECURSIVE ProtectPairsFrom(_, _, _, _, _)
RECURSIVE ProtectItemsFrom(_, _, _, _, _)
ProtectPairsFrom(data, i, context_path, protected, st) ==
    IF i > Len(data[2]) THEN [val |-> Dict(protected), st |-> st]
    ELSE With(ProtectRecursive(data[2][i][2], JoinPath(context_path, data[2][i][1]), st),
              LAMBDA r :
              ProtectPairsFrom(data, i + 1, context_path,
                               Append(protected, <<data[2][i][1], r.val>>), r.st))
ProtectItemsFrom(data, i, context_path, protected, st) ==
    IF i > Len(data[2]) THEN [val |-> List(protected), st |-> st]
    ELSE With(ProtectRecursive(data[2][i], JoinIndex(context_path, i - 1), st),
              LAMBDA r :
              ProtectItemsFrom(data, i + 1, context_path, Append(protected, r.val), r.st))
ProtectRecursive(data, context_path, st) ==
    CASE IsDict(data) -> ProtectPairsFrom(data, 1, context_path, <<>>, st)
      [] IsList(data) -> ProtectItemsFrom(data, 1, context_path, <<>>, st)
      [] IsStr(data) -> ProtectString(data[2], context_path, st)
      [] OTHER -> [val |-> data, st |-> st]

\* protect_jinja_syntax(data): [val, st].  What the call returns as the
\* placeholder map is self.placeholder_map itself, the dict that the next
\* call clears and fills again.
ProtectJinjaSyntax(data) ==
    ProtectRecursive(data, <<>>, [counter |-> 0, map |-> <<>>])

(***************************************************************************)
(* utils/variable_mapper.py: VariableMapper.map_variables.  The variable   *)
(* map is the list of its entries [name, yaml_paths, variable_type,        *)
(* filters] in insertion order; the state of a traversal is                *)
(* [variable_map, path_statistics].                                        *)
(***************************************************************************)
\* array_marker_pattern.search(s)
ArrayMarkerSearch(s) ==
    \E i \in 1..Len(s) :
      /\ s[i] = "{#"
      /\ LET j == SkipSpaces(s, i + 1) IN
           /\ j <= Len(s) /\ s[j] = "array_dynamic: true"
           /\ LET k == SkipSpaces(s, j + 1) IN k <= Len(s) /\ s[k] = "#}"

\* _identify_array_markers(node, array_markers): the strings it adds
RECURSIVE IdentifyArrayMarkers(_)
IdentifyArrayMarkers(node) ==
    CASE IsStr(node) -> IF ArrayMarkerSearch(node[2]) THEN {node[2]} ELSE {}
      [] IsDict(node) -> UNION { IdentifyArrayMarkers(node[2][i][2]) : i \in 1..Len(node[2]) }
      [] IsList(node) -> UNION { IdentifyArrayMarkers(node[2][i]) : i \in 1..Len(node[2]) }
      [] OTHER -> {}

\* _find_placeholder_info(text, jinja_placeholders): <<>> or <<the entry>>
FindPlaceholderInfo(text, jinja_placeholders) ==
    LET found == SelectSeq(jinja_placeholders,
                           LAMBDA info : \/ text = info.placeholder
                                         \/ text = <<"$">> \o info.placeholder)
    IN IF found = <<>> THEN <<>> ELSE <<found[1]>>

\* the groups that findall gives for "{{" \s* ([^}]+) \s* "}}" from token i
\* on, with the tokens of before in front of every "{{" (none for
\* variable_pattern, "$" for mapping_variable_pattern)
RECURSIVE FindAllExpressions(_, _, _)
FindAllExpressions(s, before, i) ==
    LET open == FindTok(s, "{{", i) IN
    IF open = 0 THEN <<>>
    ELSE LET first == SkipSpaces(s, open + 1)
             end == NotBraceEnd(s, open + 1)
             led == before = <<>> \/ (open > 1 /\ s[open - 1] = before[1])
         IN IF led /\ end <= Len(s) /\ s[end] = "}}" /\ end > open + 1
            THEN << SubSeq(s, IF first < end THEN first ELSE open + 1, end - 1) >>
                 \o FindAllExpressions(s, before, end + 1)
            ELSE FindAllExpressions(s, before, open + 1)

\* function_pattern.search(expr): a word and, after blanks or none, "("
HasFunctionCall(expr) ==
    \E i \in 1..Len(expr) :
      /\ IsIdent(expr[i])
      /\ LET j == SkipSpaces(expr, i + 1) IN j <= Len(expr) /\ expr[j] = "("

\* _extract_variable_names_from_complex(expr)
ExtractVariableNamesFromComplex(expr) ==
    IF HasFunctionCall(expr) THEN <<>>
    ELSE LET name == IF Contains(expr, ".") THEN Strip(SplitOn(expr, ".")[1])
                     ELSE Strip(expr)
         IN IF name = <<>> THEN <<>> ELSE <<name>>

\* _parse_filters(filter_str)
ParseFilters(filter_str) ==
    LET parts == SelectSeq([n \in 1..Len(SplitOn(Strip(filter_str), "|")) |->
                              Strip(SplitOn(Strip(filter_str), "|")[n])],
                           LAMBDA f : f # <<>>)
    IN [n \in 1..Len(parts) |->
          IF Contains(parts[n], "(") /\ EndsWith(parts[n], ")")
          THEN Strip(SplitOn(parts[n], "(")[1]) ELSE parts[n]]

\* filter_pattern.search(expr) from token i on: <<>> or <<[var, filters]>>,
\* the text before the first "|" that has some before it, and the text
\* behind that "|" and its blanks
RECURSIVE FilterSearch(_, _)
FilterSearch(expr, i) ==
    LET bar == FindTok(expr, "|", i) IN
    IF bar = 0 THEN <<>>
    ELSE IF bar = i THEN FilterSearch(expr, i + 1)
    ELSE LET behind == SkipSpaces(expr, bar + 1) IN
         IF behind > Len(expr)
         THEN IF bar < Len(expr)
              THEN <<[var |-> SubSeq(expr, i, bar - 1),
                      filters |-> SubSeq(expr, bar + 1, Len(expr))]>>
              ELSE <<>>
         ELSE <<[var |-> SubSeq(expr, i, bar - 1),
                 filters |-> SubSeq(expr, behind, Len(expr))]>>

\* a VariableInfo that _parse_variable_expression makes
VariableInfo(name, filters) ==
    [name |-> name,
     yaml_paths |-> <<>>,
     variable_type |-> IF StartsWith(name, "__") THEN "special" ELSE "regular",
     filters |-> filters]

\* _parse_variable_expression(expression)
ParseVariableExpression(expression) ==
    LET stripped == Strip(expression)
        expr == IF StartsWith(stripped, "{{") /\ EndsWith(stripped, "}}") /\ Len(stripped) >= 2
                THEN Strip(SubSeq(stripped, 2, Len(stripped) - 1))
                ELSE stripped
    IN IF Contains(expr, "|")
       THEN LET filter_match == FilterSearch(expr, 1) IN
            IF filter_match = <<>> THEN <<>>
            ELSE LET var_names == ExtractVariableNamesFromComplex(Strip(filter_match[1].var))
                 IN [n \in 1..Len(var_names) |->
                       VariableInfo(var_names[n], ParseFilters(filter_match[1].filters))]
       ELSE LET var_names == ExtractVariableNamesFromComplex(expr)
            IN [n \in 1..Len(var_names) |-> VariableInfo(var_names[n], <<>>)]

\* the filters of existing with those of var_info that it lacks
RECURSIVE MergeFilters(_, _)
MergeFilters(existing, filters) ==
    IF filters = <<>> THEN existing
    ELSE MergeFilters(IF \E n \in 1..Len(existing) : existing[n] = Head(filters)
                      THEN existing ELSE Append(existing, Head(filters)),
                      Tail(filters))

\* _add_variable_mapping(var_info, yaml_path, variable_map, path_statistics)
AddVariableMapping(var_info, yaml_path, vm) ==
    LET known == \E n \in 1..Len(vm.variable_map) : vm.variable_map[n].name = var_info.name
        counted == \E n \in 1..Len(vm.path_statistics) : vm.path_statistics[n].path = yaml_path
    IN [variable_map |->
          IF known
          THEN [n \in 1..Len(vm.variable_map) |->
                  LET existing == vm.variable_map[n] IN
                  IF existing.name = var_info.name
                     /\ ~\E k \in 1..Len(existing.yaml_paths) : existing.yaml_paths[k] = yaml_path
                  THEN [existing EXCEPT !.yaml_paths = Append(@, yaml_path),
                                        !.filters = MergeFilters(@, var_info.filters)]
                  ELSE existing]
          ELSE Append(vm.variable_map, [var_info EXCEPT !.yaml_paths = <<yaml_path>>]),
        path_statistics |->
          IF counted
          THEN [n \in 1..Len(vm.path_statistics) |->
                  IF vm.path_statistics[n].path = yaml_path
                  THEN [vm.path_statistics[n] EXCEPT !.count = @ + 1]
                  ELSE vm.path_statistics[n]]
          ELSE Append(vm.path_statistics, [path |-> yaml_path, count |-> 1])]

\* _add_variable_mapping for each of var_infos, in order
RECURSIVE AddAll(_, _, _)
AddAll(var_infos, yaml_path, vm) ==
    IF var_infos = <<>> THEN vm
    ELSE AddAll(Tail(var_infos), yaml_path, AddVariableMapping(Head(var_infos), yaml_path, vm))

\* the VariableInfo of a mapping variable ${{ name }}
MappingInfo(name) ==
    [name |-> Strip(name), yaml_paths |-> <<>>, variable_type |-> "mapping", filters |-> <<>>]

\* the variables of the expressions exprs, each parsed and added in order
RECURSIVE AddParsed(_, _, _)
AddParsed(exprs, yaml_path, vm) ==
    IF exprs = <<>> THEN vm
    ELSE AddParsed(Tail(exprs), yaml_path,
                   AddAll(ParseVariableExpression(Head(exprs)), yaml_path, vm))

\* what _process_node does with a string that is no array marker
ProcessString(node, current_path, vm, jinja_placeholders) ==
    LET placeholder_info == FindPlaceholderInfo(node, jinja_placeholders) IN
    IF placeholder_info # <<>>
    THEN IF placeholder_info[1].type = "mapping"
         THEN AddVariableMapping(
                MappingInfo(SubSeq(placeholder_info[1].original_content, 3,
                                   Len(placeholder_info[1].original_content) - 1)),
                current_path, vm)
         ELSE AddAll(ParseVariableExpression(placeholder_info[1].original_content),
                     current_path, vm)
    ELSE LET mappings == FindAllExpressions(node, <<"$">>, 1) IN
         AddParsed(FindAllExpressions(node, <<>>, 1), current_path,
                   AddAll([n \in 1..Len(mappings) |-> MappingInfo(mappings[n])],
                          current_path, vm))

\* _process_node and _traverse_and_map: the state afterwards.  The marker
\* of a dynamic array is passed over; the item template that follows it
\* in the list is the next item of the loop.
RECURSIVE ProcessNode(_, _, _, _, _)
RECURSIVE TraversePairsFrom(_, _, _, _, _, _)
RECURSIVE TraverseItemsFrom(_, _, _, _, _, _)
TraversePairsFrom(node, i, current_path, vm, jinja_placeholders, array_markers) ==
    IF i > Len(node[2]) THEN vm
    ELSE TraversePairsFrom(node, i + 1, current_path,
                           ProcessNode(node[2][i][2], JoinPath(current_path, node[2][i][1]),
                                       vm, jinja_placeholders, array_markers),
                           jinja_placeholders, array_markers)
TraverseItemsFrom(node, i, current_path, vm, jinja_placeholders, array_markers) ==
    IF i > Len(node[2]) THEN vm
    ELSE TraverseItemsFrom(node, i + 1, current_path,
                           ProcessNode(node[2][i], JoinIndex(current_path, i - 1),
                                       vm, jinja_placeholders, array_markers),
                           jinja_placeholders, array_markers)
ProcessNode(node, current_path, vm, jinja_placeholders, array_markers) ==
    CASE IsStr(node) ->
           IF node[2] \in array_markers THEN vm
           ELSE ProcessString(node[2], current_path, vm, jinja_placeholders)
      [] IsDict(node) ->
           TraversePairsFrom(node, 1, current_path, vm, jinja_placeholders, array_markers)
      [] IsList(node) ->
           TraverseItemsFrom(node, 1, current_path, vm, jinja_placeholders, array_markers)
      [] OTHER -> vm

\* _traverse_and_map(node, "", ...)
TraverseAndMap(node, vm, jinja_placeholders, array_markers) ==
    CASE IsDict(node) -> TraversePairsFrom(node, 1, <<>>, vm, jinja_placeholders, array_markers)
      [] IsList(node) -> TraverseItemsFrom(node, 1, <<>>, vm, jinja_placeholders, array_markers)
      [] OTHER -> vm

\* the names of the variables of one type
NamesOfType(variable_map, type) ==
    { variable_map[n].name : n \in { k \in 1..Len(variable_map) : variable_map[k].variable_type = type } }

\* map_variables(yaml_template, jinja_placeholders), without the report
MapVariables(yaml_template, jinja_placeholders) ==
    With(TraverseAndMap(yaml_template, [variable_map |-> <<>>, path_statistics |-> <<>>],
                        jinja_placeholders, IdentifyArrayMarkers(yaml_template)),
         LAMBDA vm :
         [variable_map |-> vm.variable_map,
          regular_variables |-> NamesOfType(vm.variable_map, "regular"),
          special_variables |-> NamesOfType(vm.variable_map, "special"),
          mapping_variables |-> NamesOfType(vm.variable_map, "mapping"),
          path_statistics |-> vm.path_statistics])

(***************************************************************************)
(* core/schema_matcher.py: SchemaMatcher.  A score is a Python float; the  *)
(* model keeps it as the exact fraction <<numerator, denominator>> in      *)
(* lowest terms (no score is negative).  A path is the segment list that   *)
(* YamlPath parses it into.                                                *)
(***************************************************************************)
RECURSIVE Gcd(_, _)
Gcd(a, b) == IF b = 0 THEN a ELSE Gcd(b, a % b)

Frac(n, d) == <<n \div Gcd(n, d), d \div Gcd(n, d)>>
FracAdd(x, y) == Frac(x[1] * y[2] + y[1] * x[2], x[2] * y[2])
FracMul(x, y) == Frac(x[1] * y[1], x[2] * y[2])
FracLe(x, y) == x[1] * y[2] <= y[1] * x[2]
FracMin(x, y) == IF FracLe(x, y) THEN x ELSE y
FracMax(x, y) == IF FracLe(x, y) THEN y ELSE x
\* 1.0 - x, for x <= 1.0
FracRest(x) == Frac(x[2] - x[1], x[2])

STRICT == "strict"
LENIENT == "lenient"
BEST_EFFORT == "best_effort"

\* MatchConfiguration.score_weights as the dataclass sets it
DefaultScoreWeights ==
    [validation |-> Frac(6, 10), path_coverage |-> Frac(3, 10),
     variable_completeness |-> Frac(1, 10)]

\* the set() of the yaml_paths of every variable of the mapping
ExpectedPaths(variable_mapping) ==
    UNION { { variable_mapping[i].yaml_paths[j] :
                j \in 1..Len(variable_mapping[i].yaml_paths) } :
            i \in 1..Len(variable_mapping) }

\* _can_extract_variable_value, from the paths of the variable onwards
RECURSIVE CanExtractFrom(_, _)
CanExtractFrom(yaml_paths, input_data) ==
    IF yaml_paths = <<>> THEN FALSE
    ELSE LET got == GetValue(input_data, Head(yaml_paths)) IN
         IF got.raised = "none" /\ ~IsNull(got.val) THEN TRUE
         ELSE CanExtractFrom(Tail(yaml_paths), input_data)

CanExtractVariableValue(var_info, input_data) ==
    CanExtractFrom(var_info.yaml_paths, input_data)

\* the first part of _calculate_match_score
ValidationScore(validation_result) ==
    IF validation_result.is_valid THEN Frac(1, 1)
    ELSE FracMax(Frac(0, 1),
                 FracRest(FracMin(Frac(Len(validation_result.errors) * 2, 10),
                                  Frac(1, 1))))

PathCoverage(validation_result, variable_mapping) ==
    LET expected_paths == ExpectedPaths(variable_mapping)
        matched_paths == { validation_result.matched_paths[j] :
                             j \in 1..Len(validation_result.matched_paths) }
    IN IF expected_paths # {}
       THEN Frac(Cardinality(matched_paths \cap expected_paths),
                 Cardinality(expected_paths))
       ELSE Frac(1, 1)

VariableCompleteness(variable_mapping, input_data) ==
    LET total_vars == Len(variable_mapping) IN
    IF total_vars > 0
    THEN Frac(Cardinality({ i \in 1..total_vars :
                              CanExtractVariableValue(variable_mapping[i], input_data) }),
              total_vars)
    ELSE Frac(1, 1)

WeightedSum(validation_score, path_coverage, variable_completeness, w) ==
    FracAdd(FracAdd(FracMul(validation_score, w.validation),
                    FracMul(path_coverage, w.path_coverage)),
            FracMul(variable_completeness, w.variable_completeness))

\* a mistaken scorer: the path coverage counts as what is NOT covered
FinalScoreUncovered(config, is_valid, validation_score, path_coverage, variable_completeness) ==
    FracMax(Frac(0, 1), FracMin(Frac(1, 1),
        IF config.strategy = STRICT /\ ~is_valid THEN Frac(0, 1)
        ELSE WeightedSum(validation_score, FracRest(path_coverage),
                         variable_completeness, config.score_weights)))

\* the last part of _calculate_match_score: the strategy and the clamp
FinalScore(config, is_valid, validation_score, path_coverage, variable_completeness) ==
    FracMax(Frac(0, 1), FracMin(Frac(1, 1),
        IF config.strategy = STRICT
        THEN IF ~is_valid THEN Frac(0, 1)
             ELSE WeightedSum(validation_score, path_coverage,
                              variable_completeness, config.score_weights)
        ELSE IF config.strategy = LENIENT
        THEN WeightedSum(validation_score, path_coverage, variable_completeness,
                         [validation |-> Frac(3, 10), path_coverage |-> Frac(5, 10),
                          variable_completeness |-> Frac(2, 10)])
        ELSE WeightedSum(validation_score, path_coverage,
                         variable_completeness, config.score_weights)))

\* _calculate_match_score: the details, final_score among them
CalculateMatchScore(config, validation_result, variable_mapping, input_data) ==
    LET validation_score == ValidationScore(validation_result)
        path_coverage == PathCoverage(validation_result, variable_mapping)
        variable_completeness == VariableCompleteness(variable_mapping, input_data)
    IN [validation_score |-> validation_score,
        path_coverage |-> path_coverage,
        variable_completeness |-> variable_completeness,
        final_score |-> FinalScore(config, validation_result.is_valid, validation_score,
                                   path_coverage, variable_completeness)]

\* _evaluate_candidate: <<the MatchCandidate>>, or <<>> for None.  The
\* template carries, as validation, what schema_generator.validate_data
\* gives for the input data and the template's schema; a template with no
\* schema and no content makes _get_template_schema raise ValueError, which
\* _evaluate_candidate catches.
EvaluateCandidate(config, input_data, template) ==
    IF ~template.has_schema THEN <<>>
    ELSE With(CalculateMatchScore(config, template.validation,
                                  template.variable_mapping, input_data),
              LAMBDA match_details :
              IF match_details.final_score[1] > 0
              THEN <<[template |-> template,
                      score |-> match_details.final_score,
                      validation_result |-> template.validation,
                      variable_mapping |-> template.variable_mapping,
                      match_details |-> match_details]>>
              ELSE <<>>)

\* the loop of find_best_match over candidates[:max_candidates]
RECURSIVE MatchCandidatesFrom(_, _, _)
MatchCandidatesFrom(config, input_data, candidates) ==
    IF candidates = <<>> THEN <<>>
    ELSE With(EvaluateCandidate(config, input_data, Head(candidates)),
              LAMBDA candidate :
              (IF candidate # <<>> /\ FracLe(config.min_score_threshold, candidate[1].score)
               THEN candidate ELSE <<>>)
              \o MatchCandidatesFrom(config, input_data, Tail(candidates)))

\* candidates[:n]
Prefix(seq, n) == SubSeq(seq, 1, IF n < Len(seq) THEN n ELSE Len(seq))

\* one step of list.sort(key=score, reverse=True): the sort is stable, so
\* a candidate goes behind every candidate whose score is not lower
RECURSIVE InsertByScore(_, _)
InsertByScore(sorted, c) ==
    IF sorted = <<>> THEN <<c>>
    ELSE IF FracLe(c.score, Head(sorted).score)
         THEN <<Head(sorted)>> \o InsertByScore(Tail(sorted), c)
         ELSE <<c>> \o sorted

\* a sort that is not stable: a candidate goes before its equals
RECURSIVE SortByScoreLastFirst(_)
SortByScoreLastFirst(cs) ==
    IF cs = <<>> THEN <<>>
    ELSE LET rest == SortByScoreLastFirst(Tail(cs))
             before == SelectSeq(rest, LAMBDA c : FracLe(Head(cs).score, c.score))
             after == SelectSeq(rest, LAMBDA c : ~FracLe(Head(cs).score, c.score))
         IN before \o <<Head(cs)>> \o after

RECURSIVE SortByScore(_)
SortByScore(cs) ==
    IF cs = <<>> THEN <<>>
    ELSE InsertByScore(SortByScore(SubSeq(cs, 1, Len(cs) - 1)), cs[Len(cs)])

\* _extract_variables for variables without filters and defaults: each
\* variable gets the first value that is not None along its paths
RECURSIVE FirstValue(_, _)
FirstValue(yaml_paths, input_data) ==
    IF yaml_paths = <<>> THEN Null
    ELSE LET got == GetValue(input_data, Head(yaml_paths)) IN
         IF got.raised = "none" /\ ~IsNull(got.val) THEN got.val
         ELSE FirstValue(Tail(yaml_paths), input_data)

RECURSIVE ExtractMappedVariables(_, _)
ExtractMappedVariables(input_data, variable_mapping) ==
    IF variable_mapping = <<>> THEN Dict(<<>>)
    ELSE LET rest == ExtractMappedVariables(input_data,
                         SubSeq(variable_mapping, 1, Len(variable_mapping) - 1))
             var_info == variable_mapping[Len(variable_mapping)]
             value == FirstValue(var_info.yaml_paths, input_data)
         IN IF IsNull(value) THEN rest ELSE DictPut(rest, var_info.name, value)

\* find_best_match: <<the MatchResult>>, or <<>> for None
FindBestMatch(config, input_data, candidates) ==
    IF candidates = <<>> THEN <<>>
    ELSE With(SortByScore(MatchCandidatesFrom(config, input_data,
                                              Prefix(candidates, config.max_candidates))),
              LAMBDA match_candidates :
              IF match_candidates = <<>> THEN <<>>
              ELSE LET best_candidate == match_candidates[1] IN
                   <<[protocol_template |-> best_candidate.template,
                      validation_result |-> best_candidate.validation_result,
                      extracted_variables |->
                          ExtractMappedVariables(input_data, best_candidate.variable_mapping),
                      match_score |-> best_candidate.score,
                      variable_mapping |-> best_candidate.variable_mapping,
                      match_strategy |-> config.strategy]>>)

(***************************************************************************)
(* Bounds and inputs of the path operations                                *)
(***************************************************************************)
MaxPathLen == 3
MaxPathOps == 2

ka == <<"a">>
kb == <<"b">>
sx == Str(<<"x">>)
sy == Str(<<"y">>)

PathSegments ==
    {KeySeg(ka, FALSE), KeySeg(kb, FALSE), KeySeg(kb, TRUE),
     IdxSeg(0), IdxSeg(1), IdxSeg(-1), WildSeg}

PathSeqs == UNION {[1..n -> PathSegments] : n \in 0..MaxPathLen}

PathTrees ==
    { Dict(<<>>),
      Dict(<< <<ka, sx>> >>),
      Dict(<< <<ka, Dict(<< <<kb, sy>> >>)>>, <<kb, Null>> >>),
      Dict(<< <<ka, List(<<sx, sy>>)>> >>),
      Dict(<< <<ka, List(<< Dict(<< <<kb, sx>> >>), Dict(<< <<kb, sy>> >>) >>)>> >>),
      Dict(<< <<ka, List(<< List(<<sx, sy>>) >>)>> >>),
      List(<< Dict(<< <<ka, sx>> >>), Null >>) }

PathInit ==
    /\ p_tree \in PathTrees
    /\ p_path \in PathSeqs
    /\ p_prev = p_tree
    /\ p_op = "none"
    /\ p_res = Returned(Null)
    /\ p_got = Raised("none yet")
    /\ p_steps = 0

\* value = path.get_value(data)
PathGetValue ==
    /\ p_steps < MaxPathOps
    /\ p_op' = "get_value"
    /\ p_res' = GetValue(p_tree, p_path)
    /\ p_got' = GetValue(p_tree, p_path)
    /\ p_prev' = p_tree
    /\ UNCHANGED <<p_tree, p_path, p_steps>>
    /\ UNCHANGED <<matchVars, renderVars, convertVars, schemaVars, fieldVars,
                 mappingVars, varmapVars, protectVars, registryVars>>

\* path.set_value(data, value), with the value last read through the path
PathSetValueBack ==
    /\ p_steps < MaxPathOps
    /\ p_op = "get_value"
    /\ p_got.raised = "none"
    /\ LET r == SetValue(p_tree, p_path, p_got.val) IN
         /\ p_tree' = r.val
         /\ p_res' = [raised |-> r.raised, val |-> Null]
    /\ p_op' = "set_value_back"
    /\ p_prev' = p_tree
    /\ p_steps' = p_steps + 1
    /\ UNCHANGED <<p_path, p_got>>
    /\ UNCHANGED <<matchVars, renderVars, convertVars, schemaVars, fieldVars,
                 mappingVars, varmapVars, protectVars, registryVars>>

\* path.set_value(data, value) with a fresh value
PathSetValue(value) ==
    /\ p_steps < MaxPathOps
    /\ LET r == SetValue(p_tree, p_path, value) IN
         /\ p_tree' = r.val
         /\ p_res' = [raised |-> r.raised, val |-> Null]
    /\ p_op' = "set_value"
    /\ p_prev' = p_tree
    /\ p_got' = Raised("none yet")
    /\ p_steps' = p_steps + 1
    /\ UNCHANGED <<p_path>>
    /\ UNCHANGED <<matchVars, renderVars, convertVars, schemaVars, fieldVars,
                 mappingVars, varmapVars, protectVars, registryVars>>

\* deleted = path.delete(data)
PathDelete ==
    /\ p_steps < MaxPathOps
    /\ LET r == Delete(p_tree, p_path) IN
         /\ p_tree' = r.val
         /\ p_res' = [raised |-> r.raised, val |-> Bool(r.ret)]
    /\ p_op' = "delete"
    /\ p_prev' = p_tree
    /\ p_got' = Raised("none yet")
    /\ p_steps' = p_steps + 1
    /\ UNCHANGED <<p_path>>
    /\ UNCHANGED <<matchVars, renderVars, convertVars, schemaVars, fieldVars,
                 mappingVars, varmapVars, protectVars, registryVars>>

PathNext ==
    \/ PathGetValue
    \/ PathSetValueBack
    \/ \E value \in {sx, Null} : PathSetValue(value)
    \/ PathDelete

(***************************************************************************)
(* The parts of the program that a specification leaves alone              *)
(***************************************************************************)
PathIdle ==
    /\ p_tree = Dict(<<>>)
    /\ p_path = <<>>
    /\ p_prev = Dict(<<>>)
    /\ p_op = "none"
    /\ p_res = Returned(Null)
    /\ p_got = Raised("none yet")
    /\ p_steps = 0

MatchIdle ==
    /\ m_template = Dict(<<>>)
    /\ m_data = Dict(<<>>)
    /\ m_match = <<>>
    /\ m_legacy = <<>>
    /\ m_vars = <<>>

RenderIdle ==
    /\ r_functions = {}
    /\ r_template = Dict(<<>>)
    /\ r_variables = Dict(<<>>)
    /\ r_source = Dict(<<>>)
    /\ r_target = <<>>
    /\ r_rnd = <<>>
    /\ r_pc = "start"
    /\ r_out = <<>>

ConvertIdle ==
    /\ c_functions = {}
    /\ c_protocols = <<>>
    /\ c_loaded = "none"
    /\ c_pc = "loading"
    /\ c_request = <<>>
    /\ c_out = <<>>

SchemaIdle ==
    /\ s_config = <<>>
    /\ s_request = <<>>
    /\ s_scored = <<>>
    /\ s_out = <<>>

FieldIdle ==
    /\ f_value = Null
    /\ f_parts = <<>>
    /\ f_combined = <<>>

MappingIdle ==
    /\ k_mapper = <<>>
    /\ k_request = <<>>
    /\ k_out = <<>>

VarMapIdle ==
    /\ v_template = Null
    /\ v_out = <<>>

ProtectIdle ==
    /\ y_counter = 0
    /\ y_placeholders = <<>>
    /\ y_returned = <<>>

RegistryIdle ==
    /\ g_matcher = "none" /\ g_protocols = <<>> /\ g_added = <<>>
    /\ g_request = <<>> /\ g_out = <<>>
LaterIdle == MappingIdle /\ VarMapIdle /\ ProtectIdle /\ RegistryIdle

OthersIdle == SchemaIdle /\ FieldIdle /\ LaterIdle

InitPath == PathInit /\ MatchIdle /\ RenderIdle /\ ConvertIdle /\ OthersIdle

\* the path operations of utils/yaml_path.py on one data object
SpecPath == InitPath /\ [][PathNext]_vars

(***************************************************************************)
(* Inputs of matching and extraction                                       *)
(***************************************************************************)
MaxItems == 3

\* "{{ name }}", name a sequence of tokens
Expr(name) == Str(<<"{{", " ">> \o name \o <<" ", "}}">>)
\* the first item of a dynamic array in a template
MARK == Str(<<"{#", " ", "array_dynamic: true", " ", "#}">>)

\* a list of n elements, element i named after its index
ItemList(n) ==
    List([i \in 1..n |-> Dict(<< <<<<"name">>, Str(<<"user", ToString(i - 1)>>)>> >>)])

MatchTemplates ==
    { \* scenario A of the tests
      Dict(<< <<<<"domain">>, Str(<<"telephone">>)>>,
              <<<<"slots">>, Dict(<< <<<<"category">>, Expr(<<"phone_type">>)>>,
                                     <<<<"name">>, Expr(<<"person">>)>> >>)>> >>),
      \* every leaf an expression, one of them a special variable
      Dict(<< <<<<"domain">>, Expr(<<"d">>)>>,
              <<<<"slots">>, Dict(<< <<<<"category">>, Expr(<<"phone_type">>)>>,
                                     <<<<"sid">>, Expr(<<"__", "sid">>)>> >>)>> >>),
      \* a key with an optional name, and a dynamic array
      Dict(<< <<<<"domain">>, Str(<<"telephone">>)>>,
              <<<<"metadata">>, Dict(<< <<<<"source">>, Str(<<"app">>)>> >>)>>,
              <<<<"items">>, List(<<MARK,
                                    Dict(<< <<<<"name">>, Expr(<<"name">>)>> >>)>>)>> >>),
      \* one variable at two keys, and a list of objects
      Dict(<< <<<<"slots">>, Dict(<< <<<<"name">>, Expr(<<"person">>)>> >>)>>,
              <<<<"items">>, List(<< Dict(<< <<<<"name">>, Expr(<<"person">>)>>,
                                             <<<<"id">>, Str(<<"1">>)>> >>) >>)>> >>),
      \* a default, and an object in an object in an object
      Dict(<< <<<<"domain">>,
                Str(<<"{{", " ", "d", " ", "|", " ", "default", "(", "'sh'", ")",
                      " ", "}}">>)>>,
              <<<<"slots">>,
                Dict(<< <<<<"inner">>,
                          Dict(<< <<<<"deep">>, Str(<<"x">>)>>,
                                  <<<<"name">>, Expr(<<"person">>)>> >>)>> >>)>> >>),
      \* a block, a comment, and an expression between spaces
      Dict(<< <<<<"domain">>, Str(<<"{%", " ", "if x", " ", "%}">>)>>,
              <<<<"slots">>,
                Dict(<< <<<<"category">>, Str(<<"{#", " ", "note", " ", "#}">>)>>,
                        <<<<"name">>,
                          Str(<<" ", "{{", " ", "person", " ", "}}", " ">>)>> >>)>> >>),
      \* literal leaves of every scalar kind, and an empty list
      Dict(<< <<<<"domain">>, Str(<<"telephone">>)>>,
              <<<<"version">>, Num(1)>>,
              <<<<"active">>, Bool(TRUE)>>,
              <<<<"note">>, Null>>,
              <<<<"tags">>, List(<<>>)>> >>) }

\* the input data: every choice of a domain, slots, items and metadata
MatchDomains ==
    { <<>>, << <<<<"domain">>, Str(<<"telephone">>)>> >>,
      << <<<<"domain">>, Str(<<"music">>)>> >> }

MatchSlots ==
    { <<>>,
      << <<<<"slots">>, Dict(<< <<<<"category">>, Str(<<"shouji">>)>>,
                                <<<<"name">>, Str(<<"zhang">>)>> >>)>> >>,
      << <<<<"slots">>, Dict(<< <<<<"category">>, Str(<<"zuoji">>)>>,
                                <<<<"sid">>, Str(<<"s1">>)>> >>)>> >>,
      << <<<<"slots">>, Dict(<< <<<<"inner">>,
                                  Dict(<< <<<<"deep">>, Str(<<"x">>)>>,
                                          <<<<"name">>, Str(<<"li">>)>> >>)>> >>)>> >>,
      << <<<<"slots">>, Dict(<< <<<<"inner">>,
                                  Dict(<< <<<<"name">>, Str(<<"li">>)>> >>)>> >>)>> >>,
      << <<<<"slots">>, Str(<<"none">>)>> >> }

MatchItems ==
    { <<>>,
      << <<<<"items">>, List(<< Dict(<< <<<<"id">>, Str(<<"1">>)>>,
                                        <<<<"name">>, Str(<<"zhao">>)>> >>) >>)>> >>,
      << <<<<"items">>, List(<< Dict(<< <<<<"name">>, Str(<<"zhao">>)>> >>) >>)>> >>,
      << <<<<"items">>, List(<< Dict(<< <<<<"id">>, Str(<<"1">>)>>,
                                        <<<<"name">>, Str(<<"zhao">>)>> >>),
                                Dict(<< <<<<"name">>, Str(<<"qian">>)>> >>) >>)>> >>,
      << <<<<"items">>, Str(<<"none">>)>> >> }
    \cup { << <<<<"items">>, ItemList(n)>> >> : n \in 0..MaxItems }

MatchMetadata ==
    { <<>>, << <<<<"metadata">>, Dict(<< <<<<"source">>, Str(<<"app">>)>> >>)>> >> }

\* inputs with scalars of every kind, and a list of scalars
MatchScalars ==
    { << <<<<"domain">>, domain>>, <<<<"version">>, version>>, <<<<"active">>, active>>,
         <<<<"note">>, note>>, <<<<"tags">>, tags>> >> :
        domain \in {Str(<<"telephone">>), Str(<<"music">>)},
        version \in {Num(1), Num(2)},
        active \in {Bool(TRUE), Bool(FALSE)},
        note \in {Null, Str(<<"x">>)},
        tags \in {List(<<>>), List(<<Str(<<"x">>)>>)} }

MatchData ==
    { Dict(d \o sl \o it \o md) :
        d \in MatchDomains, sl \in MatchSlots, it \in MatchItems, md \in MatchMetadata }
    \cup { Dict(scalars) : scalars \in MatchScalars }

MatchInit ==
    /\ m_template \in MatchTemplates
    /\ m_data \in MatchData
    /\ m_match = <<>>
    /\ m_legacy = <<>>
    /\ m_vars = <<>>

\* ProtocolMatcher._is_match(template, data) of core/matcher.py
MatcherIsMatch ==
    /\ m_match = <<>>
    /\ m_match' = <<IsMatch(m_template, m_data)>>
    /\ UNCHANGED <<m_template, m_data, m_legacy, m_vars>>
    /\ UNCHANGED <<pathVars, renderVars, convertVars, schemaVars, fieldVars,
                 mappingVars, varmapVars, protectVars, registryVars>>

\* ProtocolMatcher._is_match(template, data) of core/converter.py
ConverterIsMatch ==
    /\ m_legacy = <<>>
    /\ m_legacy' = <<LegacyIsMatch(m_template, m_data)>>
    /\ UNCHANGED <<m_template, m_data, m_match, m_vars>>
    /\ UNCHANGED <<pathVars, renderVars, convertVars, schemaVars, fieldVars,
                 mappingVars, varmapVars, protectVars, registryVars>>

\* a matcher has matched the template
Matched ==
    \/ m_match = <<TRUE>>
    \/ m_legacy # <<>> /\ m_legacy[1].raised = "none" /\ m_legacy[1].val

\* extract_variables(template, data, array_markers) on a matched template,
\* with the array markers that load_protocol parsed from it
ExtractStep ==
    /\ Matched
    /\ m_vars = <<>>
    /\ m_vars' = <<ExtractVariables(m_template, m_data, ParseArrayMarkers(m_template))>>
    /\ UNCHANGED <<m_template, m_data, m_match, m_legacy>>
    /\ UNCHANGED <<pathVars, renderVars, convertVars, schemaVars, fieldVars,
                 mappingVars, varmapVars, protectVars, registryVars>>

MatchNext ==
    \/ MatcherIsMatch
    \/ ConverterIsMatch
    \/ ExtractStep

InitMatch == MatchInit /\ PathIdle /\ RenderIdle /\ ConvertIdle /\ OthersIdle

\* matching and extraction on one template and one input
SpecMatch == InitMatch /\ [][MatchNext]_vars

(***************************************************************************)
(* Inputs of rendering: TemplateRenderer.render of core/renderer.py        *)
(***************************************************************************)
MaxUuidDraws == 2

\* the item of a dynamic array that shows the context of each element
ContextItem ==
    Dict(<< <<<<"name">>, Expr(<<"name">>)>>,
            <<<<"idx">>, Expr(<<"__", "array_index">>)>>,
            <<<<"total">>, Expr(<<"__", "array_total">>)>>,
            <<<<"last">>, Expr(<<"__", "is_last_item">>)>>,
            <<<<"session_id">>, Expr(<<"__", "session_id">>)>> >>)

RenderTemplates ==
    { \* a dynamic array at the top, and a leaf behind it
      Dict(<< <<<<"type">>, Str(<<"list">>)>>,
              <<<<"items">>, List(<<MARK, ContextItem>>)>>,
              <<<<"path">>, Expr(<<"__", "current_path">>)>> >>),
      \* a dynamic array in an object, and a function called at the top
      Dict(<< <<<<"data">>, Dict(<< <<<<"items">>, List(<<MARK, ContextItem>>)>> >>)>>,
              <<<<"conversion">>, Expr(<<"__", "conversion_id">>)>> >>),
      \* a dynamic array in the objects of a list
      Dict(<< <<<<"a">>, List(<< Dict(<< <<<<"b">>, List(<<MARK, ContextItem>>)>> >>) >>)>> >>),
      \* no array
      Dict(<< <<<<"label">>, Expr(<<"__", "sid">>)>>,
              <<<<"callee">>, Expr(<<"person">>)>>,
              <<<<"session">>, Expr(<<"__", "session_id">>)>> >>),
      \* a function that is not among the shipped ones
      Dict(<< <<<<"greeting">>, Expr(<<"__", "legacy">>)>>,
              <<<<"name">>, Expr(<<"person">>)>> >>) }

\* a source template and an input that it matches
RenderSources ==
    { [template |-> Dict(<< <<<<"items">>, List(<<MARK, Dict(<< <<<<"name">>, Expr(<<"name">>)>> >>)>>)>> >>),
       json |-> Dict(<< <<<<"items">>, ItemList(n)>> >>)] : n \in 0..MaxItems }
    \cup
    { [template |-> Dict(<< <<<<"data">>, Dict(<< <<<<"items">>, List(<<MARK, Dict(<< <<<<"name">>, Expr(<<"name">>)>> >>)>>)>> >>)>> >>),
       json |-> Dict(<< <<<<"data">>, Dict(<< <<<<"items">>, ItemList(n)>> >>)>> >>)] : n \in 0..MaxItems }
    \cup
    { [template |-> Dict(<< <<<<"a">>, Dict(<< <<<<"b">>, List(<<MARK, Dict(<< <<<<"name">>, Expr(<<"name">>)>> >>)>>)>> >>)>> >>),
       json |-> Dict(<< <<<<"a">>, Dict(<< <<<<"b">>, ItemList(n)>> >>)>> >>)] : n \in 0..MaxItems }
    \cup
    { [template |-> Dict(<< <<<<"records">>, List(<<MARK, Dict(<< <<<<"name">>, Expr(<<"name">>)>> >>)>>)>> >>),
       json |-> Dict(<< <<<<"records">>, ItemList(n)>> >>)] : n \in 0..MaxItems }
    \cup
    { [template |-> Dict(<< <<<<"slots">>, Dict(<< <<<<"category">>, Expr(<<"phone_type">>)>>,
                                                   <<<<"name">>, Expr(<<"person">>)>> >>)>> >>),
       json |-> Dict(<< <<<<"slots">>, Dict(<< <<<<"category">>, Str(<<"shouji">>)>>,
                                               <<<<"name">>, Str(<<"zhang">>)>> >>)>> >>)] }

\* the variables of a rendering: what extraction gives for the source, or
\* none (a renderer that is called with the source alone)
RenderInit ==
    /\ r_functions \in {CONVERTER_FUNCTIONS, {}, LegacyFunctions}
    /\ r_template \in RenderTemplates
    /\ \E source \in RenderSources :
         /\ r_source = source.json
         /\ r_variables \in
              { Dict(<<>>),
                ExtractVariables(source.template, source.json,
                                 ParseArrayMarkers(source.template)).val }
    /\ r_target \in { <<"B">>, <<"C">> }
    /\ r_rnd \in [1..MaxUuidDraws -> Uuids]
    /\ r_pc = "start"
    /\ r_out = <<>>

\* renderer.render(template, variables, "A", target_protocol, source_json,
\*                 array_markers), the markers being those of the template
RenderStep ==
    /\ r_pc = "start"
    /\ r_out' = <<Render(r_functions, r_template, r_variables, <<"A">>, r_target,
                         r_source, ParseArrayMarkers(r_template), Null, Null, r_rnd)>>
    /\ r_pc' = "done"
    /\ UNCHANGED <<r_functions, r_template, r_variables, r_source, r_target, r_rnd>>
    /\ UNCHANGED <<pathVars, matchVars, convertVars, schemaVars, fieldVars,
                 mappingVars, varmapVars, protectVars, registryVars>>

RenderNext == RenderStep

InitRender == RenderInit /\ PathIdle /\ MatchIdle /\ ConvertIdle /\ OthersIdle

\* one rendering by core/renderer.py
SpecRender == InitRender /\ [][RenderNext]_vars

(***************************************************************************)
(* Inputs of rendering whose values are data of any text, and templates    *)
(* with two collections                                                    *)
(***************************************************************************)
kSenders == <<"senders">>
kReceivers == <<"receivers">>
kCallee == <<"callee">>
kPerson == <<"person">>

\* the item of a collection: one field, one variable
NameItem == Dict(<< <<<<"name">>, Expr(<<"name">>)>> >>)

\* a list of n elements, element i named prefix and its index
NamedList(prefix, n) ==
    List([i \in 1..n |-> Dict(<< <<<<"name">>, Str(<<prefix, ToString(i - 1)>>)>> >>)])

\* the texts that a field of the source may hold
DataValues ==
    { Str(<<"u0">>),
      Str(<<"{{", " ", "name", "_", "0", " ", "}}">>),
      Str(<<"{{", " ", "__", "session_id", " ", "}}">>),
      Str(<<"{{", " ", "person", " ", "}}">>) }

\* the lists of up to two elements with these texts for names
DataLists ==
    { List(<<>>) }
    \cup { List(<< Dict(<< <<<<"name">>, a>> >>) >>) : a \in DataValues }
    \cup { List(<< Dict(<< <<<<"name">>, a>> >>), Dict(<< <<<<"name">>, b>> >>) >>) :
             a \in DataValues, b \in DataValues }

TwoCollections ==
    Dict(<< <<kSenders, List(<<MARK, NameItem>>)>>,
            <<kReceivers, List(<<MARK, NameItem>>)>> >>)

ItemsAndLeaf ==
    Dict(<< <<<<"items">>, List(<<MARK, NameItem>>)>>,
            <<kCallee, Expr(kPerson)>> >>)

\* a template, which is that of the source and of the target, and an input
\* that it matches
RenderDataSources ==
    { [template |-> TwoCollections,
       json |-> Dict(<< <<kSenders, NamedList("s", n)>>,
                        <<kReceivers, NamedList("r", k)>> >>)] :
        n \in 0..(MaxItems - 1), k \in 0..(MaxItems - 1) }
    \cup
    { [template |-> ItemsAndLeaf,
       json |-> Dict(<< <<<<"items">>, items>>, <<kCallee, callee>> >>)] :
        items \in DataLists, callee \in DataValues }

RenderDataInit ==
    /\ r_functions = CONVERTER_FUNCTIONS
    /\ \E source \in RenderDataSources :
         /\ r_template = source.template
         /\ r_source = source.json
         /\ r_variables \in
              { Dict(<<>>),
                ExtractVariables(source.template, source.json,
                                 ParseArrayMarkers(source.template)).val }
    /\ r_target = <<"B">>
    /\ r_rnd \in [1..MaxUuidDraws -> Uuids]
    /\ r_pc = "start"
    /\ r_out = <<>>

InitRenderData == RenderDataInit /\ PathIdle /\ MatchIdle /\ ConvertIdle /\ OthersIdle

\* one rendering by core/renderer.py of a template on its own source
SpecRenderData == InitRenderData /\ [][RenderNext]_vars

(***************************************************************************)
(* Inputs of conversion: ProtocolConverter of core/converter.py            *)
(***************************************************************************)
MaxProtocols == 3

\* the templates that load_protocol is given: [id, family, template]
Catalogue ==
    { [id |-> <<"A", "-", "1">>, family |-> <<"A">>,
       template |->
         Dict(<< <<<<"domain">>, Str(<<"telephone">>)>>,
                 <<<<"slots">>, Dict(<< <<<<"category">>, Expr(<<"phone_type">>)>>,
                                        <<<<"name">>, Expr(<<"person">>)>> >>)>> >>)],
      [id |-> <<"A", "-", "2">>, family |-> <<"A">>,
       template |->
         Dict(<< <<<<"items">>,
                   List(<<MARK, Dict(<< <<<<"name">>, Expr(<<"name">>)>> >>)>>)>> >>)],
      \* a template that Jinja2 cannot parse
      [id |-> <<"A", "-", "3">>, family |-> <<"A">>,
       template |-> Dict(<< <<<<"cmd">>, Str(<<"{%", " ", "if x", " ", "%}">>)>> >>)],
      [id |-> <<"B", "-", "1">>, family |-> <<"B">>,
       template |-> Dict(<< <<<<"who">>, Expr(<<"person">>)>>,
                            <<<<"tag">>, Expr(<<"__", "legacy">>)>> >>)],
      \* a dynamic array in the objects of a list
      [id |-> <<"B", "-", "2">>, family |-> <<"B">>,
       template |->
         Dict(<< <<<<"a">>,
                   List(<< Dict(<< <<<<"b">>,
                                     List(<<MARK,
                                            Dict(<< <<<<"name">>, Expr(<<"name">>)>> >>)>>)>> >>)
                        >>)>> >>)],
      [id |-> <<"C", "-", "1">>, family |-> <<"C">>,
       template |-> Dict(<< <<<<"label">>, Expr(<<"__", "sid">>)>>,
                            <<<<"callee">>, Expr(<<"person">>)>> >>)],
      \* another template under the same id
      [id |-> <<"C", "-", "1">>, family |-> <<"C">>,
       template |->
         Dict(<< <<<<"callee">>, Expr(<<"person">>)>>,
                 <<<<"kind">>,
                   Str(<<"{{", " ", "phone_type", " ", "|", " ", "upper", " ", "}}">>)>> >>)],
      [id |-> <<"C", "-", "2">>, family |-> <<"C">>,
       template |->
         Dict(<< <<<<"type">>, Str(<<"list">>)>>,
                 <<<<"items">>,
                   List(<<MARK, Dict(<< <<<<"name">>, Expr(<<"name">>)>> >>)>>)>> >>)] }

\* the inputs that convert is given
ConvertInputs ==
    { Dict(<< <<<<"domain">>, Str(<<"telephone">>)>>,
              <<<<"slots">>, Dict(<< <<<<"category">>, Str(<<"shouji">>)>>,
                                     <<<<"name">>, Str(<<"zhang">>)>> >>)>> >>),
      Dict(<< <<<<"items">>, ItemList(2)>> >>),
      Dict(<< <<<<"who">>, Str(<<"zhang">>)>> >>),
      Dict(<<>>),
      Null }

ConvertInit ==
    /\ c_functions \in {{}, CONVERTER_FUNCTIONS, LegacyFunctions}
    /\ c_protocols = <<>>
    /\ c_loaded = "none"
    /\ c_pc = "loading"
    /\ c_request = <<>>
    /\ c_out = <<>>

\* converter.load_protocol(protocol_id, protocol_family, template_content)
LoadStep(entry) ==
    /\ c_pc = "loading"
    /\ Len(c_protocols) < MaxProtocols
    /\ With(LoadProtocol(c_protocols, entry.id, entry.family, entry.template),
            LAMBDA loaded : /\ c_protocols' = loaded.val
                            /\ c_loaded' = loaded.raised)
    /\ UNCHANGED <<c_functions, c_pc, c_request, c_out>>
    /\ UNCHANGED <<pathVars, matchVars, renderVars, schemaVars, fieldVars,
                 mappingVars, varmapVars, protectVars, registryVars>>

\* converter.convert(source_protocol, target_protocol, source_json)
ConvertStep(source_protocol, target_protocol, source_json) ==
    /\ c_pc = "loading"
    /\ c_request' = <<[source_protocol |-> source_protocol,
                       target_protocol |-> target_protocol,
                       source_json |-> source_json]>>
    /\ c_out' = <<Convert(c_functions, c_protocols, source_protocol,
                          target_protocol, source_json)>>
    /\ c_pc' = "converted"
    /\ UNCHANGED <<c_functions, c_protocols, c_loaded>>
    /\ UNCHANGED <<pathVars, matchVars, renderVars, schemaVars, fieldVars,
                 mappingVars, varmapVars, protectVars, registryVars>>

Next ==
    \/ \E entry \in Catalogue : LoadStep(entry)
    \/ \E source_protocol \in { <<"A">>, <<"B">> }, target_protocol \in { <<"B">>, <<"C">> },
          source_json \in ConvertInputs :
         ConvertStep(source_protocol, target_protocol, source_json)

Init == ConvertInit /\ PathIdle /\ MatchIdle /\ RenderIdle /\ OthersIdle

\* a converter that loads protocols and is then asked for one conversion
Spec == Init /\ [][Next]_vars

(***************************************************************************)
(* Inputs of schema matching: SchemaMatcher of core/schema_matcher.py      *)
(***************************************************************************)
MaxCandidates == 2
DefaultMaxCandidates == 50

pa == <<KeySeg(ka, FALSE)>>
pb == <<KeySeg(kb, FALSE)>>

\* what validate_data returns: is_valid is len(errors) == 0
ValidationResult(errors, matched_paths) ==
    [is_valid |-> errors = <<>>, errors |-> errors, matched_paths |-> matched_paths]

Validations ==
    { ValidationResult(<<>>, <<pa, pb>>),
      ValidationResult(<<>>, <<pa>>),
      ValidationResult(<<"type mismatch">>, <<pa>>),
      ValidationResult(<<"e1", "e2", "e3", "e4", "e5">>, <<pa, pb>>) }

VariableMappings ==
    { <<>>,
      <<[name |-> ka, yaml_paths |-> <<pa>>], [name |-> kb, yaml_paths |-> <<pb>>]>> }

SchemaTemplates ==
    { [protocol_id |-> id, has_schema |-> TRUE, validation |-> v, variable_mapping |-> m] :
        id \in {"A-1", "A-2"}, v \in Validations, m \in VariableMappings }
    \cup { [protocol_id |-> "A-1", has_schema |-> FALSE,
            validation |-> ValidationResult(<<>>, <<>>), variable_mapping |-> <<>>] }

RECURSIVE SeqsUpTo(_, _)
SeqsUpTo(S, n) ==
    IF n = 0 THEN {<<>>}
    ELSE LET shorter == SeqsUpTo(S, n - 1) IN
         shorter \cup { Append(q, x) : q \in shorter, x \in S }

SchemaInputs == { Dict(<< <<ka, sx>>, <<kb, Null>> >>), Dict(<< <<ka, sx>>, <<kb, sy>> >>) }

MatchConfigurations ==
    { [strategy |-> strategy, min_score_threshold |-> threshold,
       max_candidates |-> max_candidates, score_weights |-> score_weights] :
        strategy \in {STRICT, LENIENT, BEST_EFFORT},
        threshold \in {Frac(3, 10), Frac(0, 1)},
        max_candidates \in {DefaultMaxCandidates, 1},
        score_weights \in {DefaultScoreWeights,
                           [validation |-> Frac(6, 10), path_coverage |-> Frac(6, 10),
                            variable_completeness |-> Frac(6, 10)]} }

\* SchemaMatcher(config)
SchemaInit ==
    /\ s_config \in MatchConfigurations
    /\ s_request = <<>>
    /\ s_scored = <<>>
    /\ s_out = <<>>

\* matcher.find_best_match(input_data, candidates); s_scored keeps the
\* details that _calculate_match_score gave for each candidate looked at
FindBestMatchStep(input_data, candidates) ==
    /\ s_request = <<>>
    /\ s_request' = <<[input_data |-> input_data, candidates |-> candidates]>>
    /\ s_scored' = [i \in 1..Len(Prefix(candidates, s_config.max_candidates)) |->
                      IF candidates[i].has_schema
                      THEN <<CalculateMatchScore(s_config, candidates[i].validation,
                                                 candidates[i].variable_mapping, input_data)>>
                      ELSE <<>>]
    /\ s_out' = FindBestMatch(s_config, input_data, candidates)
    /\ UNCHANGED <<s_config>>
    /\ UNCHANGED <<pathVars, matchVars, renderVars, convertVars, fieldVars,
                 mappingVars, varmapVars, protectVars, registryVars>>

SchemaNext ==
    \E input_data \in SchemaInputs, candidates \in SeqsUpTo(SchemaTemplates, MaxCandidates) :
        FindBestMatchStep(input_data, candidates)

InitSchema ==
    SchemaInit /\ PathIdle /\ MatchIdle /\ RenderIdle /\ ConvertIdle /\ FieldIdle
    /\ LaterIdle

\* a schema matcher that is asked once for the best match
SpecSchema == InitSchema /\ [][SchemaNext]_vars

(***************************************************************************)
(* Inputs of field mapping: the processors of core/field_mapper.py         *)
(***************************************************************************)
MaxRoadTokens == 2

\* what the name of a road is made of
RoadTokens == {"renmin", "zhongshan", HE, "-", " "}

Roads == SeqsUpTo(RoadTokens, MaxRoadTokens)

FieldValues ==
    { Str(road1 \o <<YU>> \o road2) : road1 \in Roads, road2 \in Roads }
    \cup { Str(road) : road \in Roads }
    \cup { Num(5), Null }

FieldInit ==
    /\ f_value \in FieldValues
    /\ f_parts = <<>>
    /\ f_combined = <<>>

\* parts = mapper.split_intersection(value)
SplitStep ==
    /\ f_parts = <<>>
    /\ f_parts' = <<split_intersection(f_value)>>
    /\ UNCHANGED <<f_value, f_combined>>
    /\ UNCHANGED <<pathVars, matchVars, renderVars, convertVars, schemaVars,
                 mappingVars, varmapVars, protectVars, registryVars>>

\* mapper.combine_intersection(*parts)
CombineStep ==
    /\ f_parts # <<>>
    /\ f_combined = <<>>
    /\ f_combined' = <<combine_intersection(f_parts[1][2][1], f_parts[1][2][2])>>
    /\ UNCHANGED <<f_value, f_parts>>
    /\ UNCHANGED <<pathVars, matchVars, renderVars, convertVars, schemaVars,
                 mappingVars, varmapVars, protectVars, registryVars>>

FieldNext == SplitStep \/ CombineStep

InitField ==
    FieldInit /\ PathIdle /\ MatchIdle /\ RenderIdle /\ ConvertIdle /\ SchemaIdle
    /\ LaterIdle

\* an intersection that is split and put together again
SpecField == InitField /\ [][FieldNext]_vars

(***************************************************************************)
(* The field mapper: a mapper with its rules, and one call of              *)
(* process_mapping.                                                        *)
(***************************************************************************)
MaxRules == 2

kDestination == <<"destination">>
kPrimary == <<"intersection", ".", "primary_road">>
kSecondary == <<"intersection", ".", "secondary_road">>
kFirst == <<"first">>
kSecond == <<"second">>

Rule(name, from, to, processor) ==
    [name |-> name,
     config |-> Dict(<< <<KFrom, from>>, <<KTo, to>>, <<KProcessor, Str(<<processor>>)>> >>)]

\* the two rules of load_default_mappings
destination_to_intersection ==
    Rule("destination_to_intersection", Str(kDestination),
         List(<<Str(kPrimary), Str(kSecondary)>>), "split_intersection")
intersection_to_destination ==
    Rule("intersection_to_destination", List(<<Str(kPrimary), Str(kSecondary)>>),
         Str(kDestination), "combine_intersection")

\* rules that a mapping file can hold
MappingRules ==
    { destination_to_intersection,
      intersection_to_destination,
      \* one source, a single result, a list of targets
      Rule("copy_destination", Str(kDestination), List(<<Str(kFirst), Str(kSecond)>>), "direct_mapping"),
      \* several sources, a single result, a list of targets
      Rule("roads_to_both", List(<<Str(kPrimary), Str(kSecondary)>>),
           List(<<Str(kFirst), Str(kSecond)>>), "combine_intersection"),
      \* a processor that is given one value too many
      Rule("roads_direct", List(<<Str(kPrimary), Str(kSecondary)>>), Str(kFirst), "direct_mapping"),
      \* a processor that is not registered
      Rule("unknown", Str(kDestination), Str(kSecond), "geocode"),
      \* a rule without 'from'
      [name |-> "no_from", config |-> Dict(<< <<KTo, Str(kFirst)>> >>)] }

\* the rule sets: rules under distinct names, in the order of the file
RuleSets ==
    { rules \in SeqsUpTo(MappingRules, MaxRules) :
        \A i, j \in 1..Len(rules) : i # j => rules[i].name # rules[j].name }

\* self.defaults of load_default_mappings
DefaultValues ==
    << [protocol |-> "B-4",
        values |-> Dict(<< <<<<"city">>, Str(<<"shanghai">>)>>,
                           <<<<"district">>, Str(<<"changning">>)>>,
                           <<<<"vehicle_type">>, Str(<<"car">>)>>,
                           <<<<"avoid_tolls">>, Bool(FALSE)>>,
                           <<<<"urgency">>, Str(<<"normal">>)>> >>)] >>

\* a mapper: the one of load_default_mappings, or one whose rules for
\* "A-4 <-> B-4" come from a mapping file
FieldMapper(rules) ==
    [processors |-> DefaultProcessors,
     mapping_config |-> << [left |-> "A-4", right |-> "B-4", rules |-> rules] >>,
     defaults |-> DefaultValues]

\* the variables and the source data of a call
MappingVars ==
    { Dict(<<>>),
      Dict(<< <<kDestination, Str(<<"renmin", YU, "zhongshan">>)>> >>),
      Dict(<< <<kPrimary, Str(<<"renmin">>)>>, <<kSecondary, Str(<<"zhongshan">>)>> >>),
      Dict(<< <<kDestination, List(<<Str(<<"renmin">>), Str(<<"zhongshan">>)>>)>>,
              <<<<"vehicle_type">>, Str(<<"bus">>)>> >>) }

MappingSources ==
    { Dict(<<>>),
      Dict(<< <<kDestination, Str(<<"renmin", YU, "zhongshan">>)>> >>),
      Dict(<< <<<<"intersection">>,
                Dict(<< <<<<"primary_road">>, Str(<<"renmin">>)>>,
                        <<<<"secondary_road">>, Str(<<"zhongshan">>)>> >>)>> >>) }

MappingDirections == { <<"A-4", "B-4">>, <<"B-4", "A-4">>, <<"A-4", "C-1">> }

MappingInit ==
    /\ k_mapper \in { <<FieldMapper(rules)>> : rules \in RuleSets }
    /\ k_request = <<>>
    /\ k_out = <<>>

\* mapper.process_mapping(mapping_vars, source_protocol, target_protocol, source_data)
ProcessMappingStep(mapping_vars, direction, source_data) ==
    /\ k_request = <<>>
    /\ k_request' = << [mapping_vars |-> mapping_vars,
                        source_protocol |-> direction[1],
                        target_protocol |-> direction[2],
                        source_data |-> source_data] >>
    /\ k_out' = << ProcessMapping(k_mapper[1], mapping_vars, direction[1], direction[2], source_data) >>
    /\ UNCHANGED k_mapper
    /\ UNCHANGED <<pathVars, matchVars, renderVars, convertVars, schemaVars, fieldVars,
                   varmapVars, protectVars, registryVars>>

MappingNext ==
    \E mapping_vars \in MappingVars, direction \in MappingDirections, source_data \in MappingSources :
        ProcessMappingStep(mapping_vars, direction, source_data)

InitMapping ==
    MappingInit /\ PathIdle /\ MatchIdle /\ RenderIdle /\ ConvertIdle /\ SchemaIdle
    /\ FieldIdle /\ VarMapIdle /\ ProtectIdle /\ RegistryIdle

\* a mapper and one call of process_mapping
SpecMapping == InitMapping /\ [][MappingNext]_vars

(***************************************************************************)
(* One YamlProcessor and the calls of protect_jinja_syntax on it           *)
(***************************************************************************)
MaxProtectCalls == 2

ProtectInputs ==
    { Dict(<< <<ka, Expr(<<"x">>)>> >>),
      Dict(<< <<ka, Expr(<<"x">>)>>,
              <<kb, Str(<<"{{", " ", "y", " ", "}}", " ", "and", " ", "{{", " ", "z", " ", "}}">>)>> >>),
      Dict(<< <<ka, Expr(<<"y">>)>>, <<kb, Expr(<<"x">>)>> >>),
      Dict(<< <<ka, sx>> >>),
      Dict(<< <<ka, Num(1)>>, <<kb, Expr(<<"x", " ", "|", " ", "upper">>)>> >>),
      Dict(<< <<ka, Str(<<"{#", " ", "note", " ", "#}">>)>> >>),
      Dict(<< <<ka, Str(<<"{%", " ", "if x", " ", "%}", "{{", " ", "x", " ", "}}">>)>> >>),
      Dict(<< <<ka, List(<<MARK, Dict(<< <<<<"name">>, Expr(<<"name">>)>> >>)>>)>> >>),
      Dict(<< <<ka, List(<<MARK, ContextItem>>)>>, <<kb, Expr(<<"__", "sid">>)>> >>),
      Dict(<< <<ka, Dict(<< <<kb, Expr(<<"x">>)>> >>)>>, <<kb, Str(<<"{{", "}}">>)>> >>),
      List(<< Expr(<<"x">>), Null, Expr(<<"y">>) >>),
      Expr(<<"x">>) }

ProtectInit ==
    /\ y_counter = 0
    /\ y_placeholders = <<>>
    /\ y_returned = <<>>

\* protected_data, placeholder_map = processor.protect_jinja_syntax(data);
\* was is what the returned map held when the call returned
ProtectStep(data) ==
    /\ Len(y_returned) < MaxProtectCalls
    /\ LET r == ProtectJinjaSyntax(data) IN
         /\ y_counter' = r.st.counter
         /\ y_placeholders' = r.st.map
         /\ y_returned' = Append(y_returned, [data |-> r.val, was |-> r.st.map])
    /\ UNCHANGED <<pathVars, matchVars, renderVars, convertVars, schemaVars, fieldVars,
                   mappingVars, varmapVars, registryVars>>

ProtectNext == \E data \in ProtectInputs : ProtectStep(data)

InitProtect ==
    ProtectInit /\ PathIdle /\ MatchIdle /\ RenderIdle /\ ConvertIdle /\ SchemaIdle
    /\ FieldIdle /\ MappingIdle /\ VarMapIdle /\ RegistryIdle

\* the calls of protect_jinja_syntax on one processor
SpecProtect == InitProtect /\ [][ProtectNext]_vars

(***************************************************************************)
(* The variable mapper: a template and one call of map_variables, on the   *)
(* template itself or on what protect_jinja_syntax makes of it             *)
(***************************************************************************)
kItems == <<"items">>

\* the leaves of the templates
VarMapLeaves ==
    { Expr(<<"kind">>), Expr(<<"name">>), Expr(<<"id", " ", "|", " ", "upper">>),
      Expr(<<"__", "sid">>), Expr(<<"user", ".", "name">>), Str(<<"plain">>) }

VarMapTemplates ==
    { Dict(<< <<<<"type">>, top>>,
              <<kItems, List(<<MARK, Dict(<< <<<<"name">>, inner>>,
                                             <<<<"n">>, Dict(<< <<<<"id">>, deep>> >>)>> >>)>>)>> >>) :
        top \in VarMapLeaves, inner \in VarMapLeaves, deep \in VarMapLeaves }
    \cup { Dict(<< <<<<"type">>, top>>, <<<<"who">>, List(<<other, Num(1)>>)>> >>) :
             top \in VarMapLeaves, other \in VarMapLeaves }

VarMapInit ==
    /\ v_template \in VarMapTemplates
    /\ v_out = <<>>

\* mapper.map_variables(template, {}), or
\* mapper.map_variables(*YamlProcessor().protect_jinja_syntax(template))
MapVariablesStep(protected) ==
    /\ v_out = <<>>
    /\ v_out' = IF protected
                THEN With(ProtectJinjaSyntax(v_template), LAMBDA r :
                          << [protected |-> TRUE, data |-> r.val,
                              result |-> MapVariables(r.val, r.st.map)] >>)
                ELSE << [protected |-> FALSE, data |-> v_template,
                         result |-> MapVariables(v_template, <<>>)] >>
    /\ UNCHANGED v_template
    /\ UNCHANGED <<pathVars, matchVars, renderVars, convertVars, schemaVars, fieldVars,
                   mappingVars, protectVars, registryVars>>

VarMapNext == \E protected \in BOOLEAN : MapVariablesStep(protected)

InitVarMap ==
    VarMapInit /\ PathIdle /\ MatchIdle /\ RenderIdle /\ ConvertIdle /\ SchemaIdle
    /\ FieldIdle /\ MappingIdle /\ ProtectIdle /\ RegistryIdle

\* a template and one call of map_variables
SpecVarMap == InitVarMap /\ [][VarMapNext]_vars

(***************************************************************************)
(* Inputs of registration: ProtocolMatcher of core/matcher.py and of       *)
(* core/converter.py                                                       *)
(***************************************************************************)
MaxAdds == 3

kWho == <<"who">>
kTag == <<"tag">>

\* two templates that one input can match together
WhoTemplate == Dict(<< <<kWho, Expr(<<"person">>)>> >>)
WhoTagTemplate == Dict(<< <<kWho, Expr(<<"person">>)>>, <<kTag, Str(<<"x">>)>> >>)

\* ProtocolTemplate(protocol_id, protocol_family, template_content, ...)
RegistryCatalogue ==
    { [protocol_id |-> id, protocol_family |-> family, template_content |-> template,
       variables |-> {<<"person">>}, special_variables |-> {}, array_markers |-> <<>>] :
        id \in { <<"P", "-", "1">>, <<"P", "-", "2">> },
        family \in { <<"A">>, <<"B">> },
        template \in { WhoTemplate, WhoTagTemplate } }

RegistryInputs ==
    { Dict(<< <<kWho, Str(<<"zhang">>)>>, <<kTag, Str(<<"x">>)>> >>),
      Dict(<< <<kWho, Str(<<"zhang">>)>>, <<kTag, Str(<<"y">>)>> >>),
      Dict(<< <<kTag, Str(<<"x">>)>> >>) }

\* ProtocolMatcher()
RegistryInit ==
    /\ g_matcher \in {"core/matcher.py", "core/converter.py"}
    /\ g_protocols = <<>>
    /\ g_added = <<>>
    /\ g_request = <<>>
    /\ g_out = <<>>

\* matcher.add_protocol(protocol)
AddProtocolStep(protocol) ==
    /\ g_request = <<>>
    /\ Len(g_added) < MaxAdds
    /\ g_protocols' = AddProtocol(g_protocols, protocol)
    /\ g_added' = Append(g_added, protocol)
    /\ UNCHANGED <<g_matcher, g_request, g_out>>
    /\ UNCHANGED <<pathVars, matchVars, renderVars, convertVars, schemaVars, fieldVars,
                   mappingVars, varmapVars, protectVars>>

\* matcher.match_protocol(protocol_family, json_data)
MatchProtocolStep(protocol_family, json_data) ==
    /\ g_request = <<>>
    /\ g_request' = <<[protocol_family |-> protocol_family, json_data |-> json_data]>>
    /\ g_out' = <<IF g_matcher = "core/matcher.py"
                  THEN MatcherMatchProtocol(g_protocols, protocol_family, json_data)
                  ELSE MatchProtocol(g_protocols, protocol_family, json_data)>>
    /\ UNCHANGED <<g_matcher, g_protocols, g_added>>
    /\ UNCHANGED <<pathVars, matchVars, renderVars, convertVars, schemaVars, fieldVars,
                   mappingVars, varmapVars, protectVars>>

RegistryNext ==
    \/ \E protocol \in RegistryCatalogue : AddProtocolStep(protocol)
    \/ \E protocol_family \in { <<"A">>, <<"B">> }, json_data \in RegistryInputs :
         MatchProtocolStep(protocol_family, json_data)

InitRegistry ==
    RegistryInit /\ PathIdle /\ MatchIdle /\ RenderIdle /\ ConvertIdle /\ SchemaIdle
    /\ FieldIdle /\ MappingIdle /\ VarMapIdle /\ ProtectIdle

\* a matcher, the protocols added to it and one call of match_protocol
SpecRegistry == InitRegistry /\ [][RegistryNext]_vars




(***************************************************************************)
(* Properties of the path operations                                       *)
(***************************************************************************)
\* C10: for any tree t and path p such that exists(t, p) holds,
\* set_value(t, p, get_value(t, p)) leaves t unchanged, also for paths with
\* optional segments, negative indices and wildcards.  (get_value returned
\* without raising, which is what exists tests, and its value was written
\* back through the same path.)
C10_SetOfGetLeavesTreeUnchanged ==
    (p_op = "set_value_back" /\ Exists(p_prev, p_path)) => p_tree = p_prev

(***************************************************************************)
(* Properties of matching and extraction                                   *)
(***************************************************************************)
\* a leaf that is an expression: a variable, a block, or a comment
ExpressionLeaf(value) ==
    /\ IsStr(value)
    /\ LET s == Strip(value[2]) IN
         \/ StartsWith(s, "{{")
         \/ StartsWith(s, "{%")
         \/ StartsWith(s, "{#") /\ EndsWith(s, "#}")

\* the input lacks a key that the template declares with a value that is
\* neither an expression nor optional: in the object itself, or in an
\* object that input and template hold under the same key, or in the first
\* object of a list that they hold under the same key
RECURSIVE LacksDeclaredKey(_, _)
LacksDeclaredKey(template, data) ==
    /\ IsDict(template)
    /\ IsDict(data)
    /\ \E i \in 1..Len(template[2]) :
         LET key == template[2][i][1]
             value == template[2][i][2]
         IN
         /\ ~ExpressionLeaf(value)
         /\ IF ~DictHas(data, key) THEN ~IsOptionalField(key, value)
            ELSE LET held == DictGet(data, key) IN
                 \/ LacksDeclaredKey(value, held)
                 \/ /\ IsList(value) /\ IsList(held)
                    /\ Len(value[2]) > 0 /\ Len(held[2]) > 0
                    /\ LacksDeclaredKey(value[2][1], held[2][1])

\* the input has every key of the top of the template
HasTopKeys(template, data) ==
    \A i \in 1..Len(template[2]) : DictHas(data, template[2][i][1])

RECURSIVE AllLeavesExpressions(_)
AllLeavesExpressions(template) ==
    CASE IsDict(template) ->
           \A i \in 1..Len(template[2]) : AllLeavesExpressions(template[2][i][2])
      [] IsList(template) ->
           /\ \E i \in 1..Len(template[2]) :
                 ~IsNull(CleanTemplateForMatching(template[2][i]))
           /\ \A i \in 1..Len(template[2]) : AllLeavesExpressions(template[2][i])
      [] OTHER -> ExpressionLeaf(template)

\* the data has the keys of the template, no more and no fewer, in every
\* object of the template; under the key of a list it has a list, whose
\* first element is an object with the same keys where the template's is
RECURSIVE SameKeys(_, _)
SameKeys(template, data) ==
    CASE IsDict(template) ->
           /\ IsDict(data)
           /\ {template[2][i][1] : i \in 1..Len(template[2])}
                = {data[2][i][1] : i \in 1..Len(data[2])}
           /\ \A i \in 1..Len(template[2]) :
                SameKeys(template[2][i][2], DictGet(data, template[2][i][1]))
      [] IsList(template) ->
           /\ IsList(data)
           /\ LET items == SelectSeq(template[2],
                             LAMBDA item : ~IsNull(CleanTemplateForMatching(item)))
              IN (Len(items) > 0 /\ Len(data[2]) > 0) => SameKeys(items[1], data[2][1])
      [] OTHER -> TRUE

\* C6: a template in which every leaf value is an expression matches any
\* data object that has the same set of keys, whatever the values under
\* those keys.
C6_ExpressionTemplateMatchesSameKeys ==
    (AllLeavesExpressions(m_template) /\ SameKeys(m_template, m_data)) =>
        /\ m_match # <<>> => m_match = <<TRUE>>
        /\ m_legacy # <<>> => m_legacy = <<[raised |-> "none", val |-> TRUE]>>

\* such a template has matched data whose values are not the template's
C6_Witness ==
    /\ AllLeavesExpressions(m_template)
    /\ SameKeys(m_template, m_data)
    /\ m_template # m_data
    /\ \E i \in 1..Len(m_data[2]) : IsDict(m_data[2][i][2])
    /\ m_match = <<TRUE>>
    /\ m_legacy # <<>>

\* the regular variable of a leaf that is one expression: <<name>>, or <<>>
LeafVariable(value) ==
    IF ~IsStr(value) THEN <<>>
    ELSE LET parsed == JinjaParse(value[2])
             exprs == IF parsed.ok
                      THEN SelectSeq(parsed.parts, LAMBDA part : part.t = "expr")
                      ELSE <<>>
         IN IF Len(exprs) = 1 /\ ~IsSpecialName(exprs[1].name)
            THEN <<exprs[1].name>> ELSE <<>>

\* the leaves of a template that are regular variables, each with the
\* input's value at the same key position: [name, has, val], following
\* nested objects, and the first object of a list of objects
RECURSIVE LeafPositions(_, _)
LeafPositions(template, data) ==
    LET RECURSIVE Over(_)
        Over(i) ==
          IF i > Len(template[2]) THEN <<>>
          ELSE
            LET key == template[2][i][1]
                value == template[2][i][2]
                has == IsDict(data) /\ DictHas(data, key)
                held == IF has THEN DictGet(data, key) ELSE Null
                here ==
                  CASE LeafVariable(value) # <<>> ->
                         <<[name |-> LeafVariable(value)[1], has |-> has, val |-> held]>>
                    [] IsDict(value) -> LeafPositions(value, held)
                    [] IsList(value) /\ Len(value[2]) > 0 /\ IsDict(value[2][1]) ->
                         LeafPositions(value[2][1],
                            IF IsList(held) /\ Len(held[2]) > 0 THEN held[2][1] ELSE Null)
                    [] OTHER -> <<>>
            IN here \o Over(i + 1)
    IN Over(1)

MarkerCollection(marker, source_json) ==
    LET at_path == GetNestedValue(source_json, SplitOn(marker.field_path, ".")) IN
    IF IsList(at_path) THEN at_path
    ELSE LET lists == SelectSeq(source_json[2],
                         LAMBDA kv : IsList(kv[2]) /\ Len(kv[2][2]) > 0)
         IN IF lists # <<>> THEN lists[1][2] ELSE Null

\* what the rendering left at the marker's path: the value reached through
\* the keys of the path, Null when they do not lead through objects
RenderedAt(marker) ==
    GetNestedValue(r_out[1].val, SplitOn(marker.field_path, "."))

\* the calls of pluggable functions that were made with an array context
ArrayCalls == SelectSeq(r_out[1].calls, LAMBDA call : ~IsNull(call.context.array_path))

\* C1: for an array marker whose source collection has N elements, rendering
\* writes exactly N items at the marker's path, in input order, and the
\* context passed to pluggable functions while item i is rendered has
\* array_index = i, array_total = N and is_last_item = (i = N - 1).  (The
\* item template of the model calls four functions for each element.)
C1_ArrayMarkerRendersEveryItem ==
    r_pc = "done" =>
      \A m \in 1..Len(ParseArrayMarkers(r_template)) :
        LET marker == ParseArrayMarkers(r_template)[m]
            source == MarkerCollection(marker, r_source)
            N == Len(source[2])
            items == RenderedAt(marker)
        IN IsList(source) =>
             /\ r_out[1].raised = "none"
             /\ IsList(items)
             /\ Len(items[2]) = N
             /\ \A i \in 1..N :
                  DictGet(items[2][i], <<"name">>) = DictGet(source[2][i], <<"name">>)
             /\ r_functions = CONVERTER_FUNCTIONS =>
                  /\ Len(ArrayCalls) = 4 * N
                  /\ \A k \in 1..(4 * N) :
                       LET i == (k - 1) \div 4
                           context == ArrayCalls[k].context
                       IN /\ context.array_index = Num(i)
                          /\ context.array_total = Num(N)
                          /\ context.is_last_item = (i = N - 1)

\* the session_id of a rendered item
SessionIdOf(item) == DictGet(item, <<"session_id">>)[2]

\* a string holds the index i of an item: "item" followed by the digits of i
HoldsIndex(s, i) ==
    \E k \in 1..(Len(s) - 1) : s[k] = "item" /\ s[k + 1] = ToString(i)

Request == c_request[1]
Result == c_out[1].val

\* what a ConversionResult is
IsConversionResult(result) ==
    /\ DOMAIN result = {"success", "result", "matched_protocol", "variables", "error"}
    /\ result.success \in BOOLEAN

\* C2: convert always returns a ConversionResult and never raises: a
\* failure inside it is reported through success = false and error.
C2_ConvertNeverRaises ==
    c_pc = "converted" =>
        /\ c_out[1].raised = "none"
        /\ IsConversionResult(Result)
        /\ ~Result.success => IsStr(Result.error)

\* convert has returned after something in it raised a TypeError
C2_Witness ==
    /\ c_pc = "converted"
    /\ c_out[1].raised = "none"
    /\ ~Result.success
    /\ Result.error = Str(<<"TypeError">>)

\* the loaded templates of the source family that match the input
MatchingOfFamily ==
    SelectSeq(c_protocols,
              LAMBDA p : /\ p.protocol_family = Request.source_protocol
                         /\ LegacyIsMatch(p.template_content, Request.source_json)
                              = [raised |-> "none", val |-> TRUE])

\* the identifier G-n that is paired with the identifier F-n
PairedId(source_id) ==
    Request.target_protocol \o <<"-">> \o <<source_id[Len(source_id)]>>

\* the loaded templates whose identifier is paired with a matching one
PairedTargets(source_id) ==
    SelectSeq(c_protocols, LAMBDA p : p.protocol_id = PairedId(source_id))

\* C3: a conversion reports success = true only when a template of the
\* source family matched the input and a paired target template exists; if
\* no source template matches, or the matched one has no paired target,
\* success is false, error is set and no result tree is returned.
C3_SuccessOnlyWithMatchAndTarget ==
    c_pc = "converted" =>
        /\ Result.success =>
             /\ MatchingOfFamily # <<>>
             /\ PairedTargets(MatchingOfFamily[1].protocol_id) # <<>>
        /\ (\/ MatchingOfFamily = <<>>
            \/ PairedTargets(MatchingOfFamily[1].protocol_id) = <<>>) =>
             /\ ~Result.success
             /\ IsStr(Result.error)
             /\ Result.result = Null

\* a conversion has succeeded with templates of other families loaded
C3_Witness ==
    /\ c_pc = "converted"
    /\ Result.success
    /\ Result.result # Null
    /\ \E i \in 1..Len(c_protocols) :
         c_protocols[i].protocol_family \notin
             {Request.source_protocol, Request.target_protocol}

\* C4: when the source template identified as F-n matches and the target
\* family is G, the target template is the one whose identifier is G-n: the
\* result is the rendering of that template and of no other template of G,
\* and when G-n is not loaded the conversion fails.
C4_TargetIsSameNumberInTargetFamily ==
    (c_pc = "converted" /\ MatchingOfFamily # <<>>) =>
        LET source_id == MatchingOfFamily[1].protocol_id
            targets == PairedTargets(source_id)
        IN
        /\ targets = <<>> => ~Result.success
        /\ Result.success =>
             /\ Result.matched_protocol = Str(source_id)
             /\ Len(targets) = 1
             /\ Result.result =
                  LegacyRender(c_functions, targets[1].template_content,
                               Result.variables, Request.source_protocol,
                               Request.target_protocol, Request.source_json,
                               targets[1].array_markers).val

\* A-2 has matched with two templates of the target family loaded, and the
\* result is the rendering of the second of them
C4_Witness ==
    /\ c_pc = "converted"
    /\ Result.success
    /\ Result.matched_protocol = Str(<<"A", "-", "2">>)
    /\ Len(c_protocols) = 3
    /\ c_protocols[1].protocol_id = <<"C", "-", "1">>
    /\ c_protocols[2].protocol_id = <<"C", "-", "2">>
    /\ DictHas(Result.result, <<"items">>)
    /\ Len(DictGet(Result.result, <<"items">>)[2]) = 2

\* C8: a target leaf {{ __X }} for which func_X is registered is rendered
\* by calling func_X with the context of the conversion, and gets what the
\* function returns: converting from A to C with phone_type bound to the
\* mobile phone type, {{ __sid }} with the shipped func_sid gives
\* PHONE_TYPE_MOBILE.
C8_SpecialVariableCallsRegisteredFunction ==
    (/\ c_pc = "converted"
     /\ c_functions = CONVERTER_FUNCTIONS
     /\ Request.source_protocol = <<"A">>
     /\ Request.target_protocol = <<"C">>
     /\ MatchingOfFamily # <<>>
     /\ MatchingOfFamily[1].protocol_id = <<"A", "-", "1">>
     /\ PairedTargets(<<"A", "-", "1">>) # <<>>
     /\ DictHas(PairedTargets(<<"A", "-", "1">>)[1].template_content, <<"label">>)
     /\ DictGet(Request.source_json[2][2][2], <<"category">>) = Str(<<"shouji">>)) =>
        /\ Result.success
        /\ DictGet(Result.result, <<"label">>) = Str(<<"PHONE_TYPE_MOBILE">>)

(***************************************************************************)
(* Properties of schema matching                                           *)
(***************************************************************************)
\* the scorings that the call of find_best_match made
Scorings == { s_scored[i][1] : i \in { j \in 1..Len(s_scored) : s_scored[j] # <<>> } }

ScoreOf(i) ==
    CalculateMatchScore(s_config, s_request[1].candidates[i].validation,
                        s_request[1].candidates[i].variable_mapping,
                        s_request[1].input_data).final_score

\* the candidates of the call, out of the positions in I, whose score is
\* at least min_score_threshold
AtOrAbove(I) ==
    { i \in I : /\ s_request[1].candidates[i].has_schema
                /\ FracLe(s_config.min_score_threshold, ScoreOf(i)) }

\* i is the first of the candidates in Q with the highest score
FirstMaximal(i, Q) ==
    /\ i \in Q
    /\ \A j \in Q : /\ FracLe(ScoreOf(j), ScoreOf(i))
                    /\ (ScoreOf(j) = ScoreOf(i) => i <= j)

\* find_best_match returned None if Q is empty, else the first maximal of Q
ReturnedBestOf(Q) ==
    IF Q = {} THEN s_out = <<>>
    ELSE /\ s_out # <<>>
         /\ \E i \in Q : /\ FirstMaximal(i, Q)
                         /\ s_out[1].protocol_template = s_request[1].candidates[i]
                         /\ s_out[1].match_score = ScoreOf(i)

\* C16 as stated: find_best_match returns None iff no candidate has a
\* score >= min_score_threshold; otherwise it returns a candidate of
\* maximal score among those, the first in the candidate list among equals.
C16_BestMatchOfAllCandidates ==
    s_request # <<>> =>
        ReturnedBestOf(AtOrAbove(1..Len(s_request[1].candidates)))

\* C16, amended: the same, among the first max_candidates candidates whose
\* score is positive.
C16_BestMatchOfCandidatesLookedAt ==
    s_request # <<>> =>
        ReturnedBestOf({ i \in AtOrAbove(1..Len(Prefix(s_request[1].candidates,
                                                       s_config.max_candidates))) :
                           ScoreOf(i)[1] > 0 })

\* two different candidates tie at the highest score and the first was
\* returned
C16_Witness ==
    /\ s_request # <<>>
    /\ s_out # <<>>
    /\ Len(s_request[1].candidates) = 2
    /\ s_config.max_candidates = DefaultMaxCandidates
    /\ AtOrAbove({1, 2}) = {1, 2}
    /\ ScoreOf(1) = ScoreOf(2)
    /\ s_request[1].candidates[1] # s_request[1].candidates[2]
    /\ s_out[1].protocol_template = s_request[1].candidates[1]

(***************************************************************************)
(* Properties of field mapping                                             *)
(***************************************************************************)
\* C12: combine_intersection(*split_intersection(s)) == s for every s of
\* the form road1 + YU + road2.
C12_CombineOfSplitIsIdentity ==
    (f_combined # <<>> /\ IsStr(f_value) /\ Contains(f_value[2], YU))
        => f_combined[1] = f_value

(***************************************************************************)
(* Properties of rendering: failures, contexts and frames                  *)
(***************************************************************************)
\* C13: rendering a leaf that contains a regular variable with no binding
\* never throws and emits the visible marker [MISSING:name] in place of
\* the expression.  (The leaf callee of the template without array is
\* {{ person }}.)
C13_UnboundVariableEmitsMissingMarker ==
    (/\ r_pc = "done"
     /\ DictHas(r_template, <<"callee">>)
     /\ ~VarsHas(r_variables, <<"person">>)) =>
        /\ r_out[1].raised = "none"
        /\ DictGet(r_out[1].val, <<"callee">>) = Str(<<"[MISSING:", "person", "]">>)

\* C14: a failure while rendering one expression (a registered pluggable
\* function that raises or has the wrong signature included) does not abort
\* the conversion: the other leaves of the target template are still
\* rendered and the rendering returns, with a degraded value at the failing
\* leaf.  (The leaf greeting is {{ __legacy }}, and the registered
\* func_legacy takes four arguments; the leaf name is {{ person }}.)
C14_FailingFunctionDoesNotAbort ==
    (/\ r_pc = "done"
     /\ DictHas(r_template, <<"greeting">>)
     /\ r_functions = LegacyFunctions
     /\ VarsHas(r_variables, <<"person">>)) =>
        /\ r_out[1].raised = "none"
        /\ DictGet(r_out[1].val, <<"name">>) = VarsGet(r_variables, <<"person">>)

\* C15: within one top-level render call, the root context and every
\* per-element child context carry the same conversion_id.  (The contexts
\* are those that the pluggable functions were called with; what the claim
\* says of two different top-level calls depends on uuid4 alone.)
C15_OneConversionIdPerCall ==
    r_pc = "done" =>
        \A i, j \in 1..Len(r_out[1].calls) :
            r_out[1].calls[i].context.conversion_id
                = r_out[1].calls[j].context.conversion_id

(***************************************************************************)
(* Properties of matching: scalars and sequences                           *)
(***************************************************************************)
\* a literal leaf: a scalar that is no expression
ScalarLiteral(value) ==
    \/ value[1] \in {"num", "bool", "null"}
    \/ IsStr(value) /\ ~ExpressionLeaf(value)

IsScalar(value) == value[1] \in {"str", "num", "bool", "null"}

\* C17: a scalar template leaf that is no expression matches only a data
\* value exactly equal to it, for every scalar kind (string, number,
\* boolean, null): if the template holds the literal v at a key and the
\* data holds a different scalar at that key, is_match returns false, in
\* core/matcher.py and in core/converter.py.
C17_DifferentScalarNeverMatches ==
    \A i \in 1..Len(m_template[2]) :
        LET key == m_template[2][i][1]
            v == m_template[2][i][2]
        IN ( /\ ScalarLiteral(v)
             /\ DictHas(m_data, key)
             /\ IsScalar(DictGet(m_data, key))
             /\ DictGet(m_data, key) # v )
           => /\ m_match # <<>> => ~m_match[1]
              /\ m_legacy # <<>> => ~(m_legacy[1].raised = "none" /\ m_legacy[1].val)

\* the data with every list under a key cut down to its first element
FirstItemsOnly(data) ==
    Dict([i \in 1..Len(data[2]) |->
            IF IsList(data[2][i][2])
            THEN <<data[2][i][1], List(Prefix(data[2][i][2][2], 1))>>
            ELSE data[2][i]])

\* C18: for a sequence node, is_match of core/matcher.py requires the data
\* node to be a sequence; an empty template sequence matches only an empty
\* data sequence; a template sequence that is not empty checks only its
\* first element against the first data element, so that the elements
\* after the first never affect the result.  (The template sequence is
\* taken without its comments, as _is_match takes it.)
C18_SequenceMatchesByFirstElement ==
    m_match # <<>> =>
      /\ \A i \in 1..Len(m_template[2]) :
            LET key == m_template[2][i][1]
                t == CleanTemplateForMatching(m_template[2][i][2])
                d == DictGet(m_data, key)
            IN (IsList(m_template[2][i][2]) /\ DictHas(m_data, key)) =>
                 /\ ~IsList(d) => ~m_match[1]
                 /\ (IsList(d) /\ t[2] = <<>> /\ d[2] # <<>>) => ~m_match[1]
                 /\ (IsList(d) /\ t[2] # <<>> /\ d[2] # <<>>
                        /\ ~RecursiveMatch(t[2][1], d[2][1])) => ~m_match[1]
      /\ m_match[1] = IsMatch(m_template, FirstItemsOnly(m_data))

\* a template with a list was matched by data whose list has a second
\* element that the first element of the template would not match
C18_Witness ==
    /\ m_match = <<TRUE>>
    /\ \E i \in 1..Len(m_template[2]) :
          LET key == m_template[2][i][1]
              t == CleanTemplateForMatching(m_template[2][i][2])
          IN /\ IsList(t) /\ t[2] # <<>>
             /\ DictHas(m_data, key)
             /\ IsList(DictGet(m_data, key))
             /\ Len(DictGet(m_data, key)[2]) >= 2
             /\ ~RecursiveMatch(t[2][1], DictGet(m_data, key)[2][2])

\* C19: whenever a call of _render_dict or _render_list returns, the
\* current_path and the render_depth of the context are what they were
\* when the call began; hence a leaf rendered after a sibling field
\* (object, string or list) sees its own key path as current_path, and not
\* a path that begins with the key of the sibling.  (The leaf path is
\* {{ __current_path }} and stands behind the list items; the leaf
\* conversion stands behind the object data.)
C19_LeafAfterSiblingSeesOwnPath ==
    (/\ r_pc = "done"
     /\ r_functions = CONVERTER_FUNCTIONS
     /\ r_out[1].raised = "none") =>
        /\ DictHas(r_template, <<"path">>) =>
              DictGet(r_out[1].val, <<"path">>) = Str(<<"path">>)
        /\ \A k \in 1..Len(r_out[1].calls) :
              r_out[1].calls[k].func = <<"func_", "conversion_id">> =>
                  r_out[1].calls[k].context.current_path = Str(<<"conversion">>)

\* C20: render never modifies the template it is given, the item template
\* of any array marker, or the source input: after the call the template
\* holds what it held before, no item template was written to, and the
\* markers and the variables that the template and the input give are
\* those of before the call.
C20_RenderLeavesTemplateAndSource ==
    r_pc = "done" =>
        /\ r_out[1].template = r_template
        /\ r_out[1].written = <<>>
        /\ ParseArrayMarkers(r_out[1].template) = ParseArrayMarkers(r_template)

\* a template with an array marker was rendered over two elements or more,
\* and what came out is not what the template holds
C20_Witness ==
    /\ r_pc = "done"
    /\ r_out[1].raised = "none"
    /\ r_out[1].val # r_template
    /\ ParseArrayMarkers(r_template) # <<>>
    /\ LET items == RenderedAt(ParseArrayMarkers(r_template)[1]) IN
         /\ IsList(items)
         /\ Len(items[2]) >= 2
         /\ items[2][1] # ParseArrayMarkers(r_template)[1].template_item

(***************************************************************************)
(* Properties of process_mapping                                           *)
(***************************************************************************)
\* the rules that the call went through, and the outcome of rule i
RulesOfCall ==
    LET found == MappingRulesOf(k_mapper[1].mapping_config, k_request[1].source_protocol,
                                k_request[1].target_protocol)
    IN IF found = <<>> THEN <<>> ELSE found[1]

\* rule i has a list of target paths, and its processor returned value
ScatteredListRule(i) ==
    /\ ~k_out[1].outcomes[i].skipped
    /\ k_out[1].outcomes[i].raised = "none"
    /\ IsList(DictGetOrNull(RulesOfCall[i].config, KTo))
    /\ DictGet(RulesOfCall[i].config, KProcessor)[2][1] \in DefaultProcessors

\* the value that the processor of rule i returned
ProcessorResult(i) ==
    LET rule == RulesOfCall[i].config
        from == DictGet(rule, KFrom)
        values == IF IsList(from)
                  THEN [n \in 1..Len(from[2]) |->
                          ExtractFieldValue(from[2][n], k_request[1].mapping_vars,
                                            k_request[1].source_data)]
                  ELSE << ExtractFieldValue(from, k_request[1].mapping_vars,
                                            k_request[1].source_data) >>
    IN CallProcessor(DictGet(rule, KProcessor)[2][1], values).val

\* C21: when 'to' is a list of paths, a list result gives element k to
\* target path k, and any other result goes to every target path, for a
\* rule with one source and for a rule with several.
C21_ListOfTargetsZipsOrBroadcasts ==
    k_out # <<>> =>
      \A i \in 1..Len(k_out[1].outcomes) :
        ScatteredListRule(i) =>
          LET to == DictGet(RulesOfCall[i].config, KTo)[2]
              result == ProcessorResult(i)
              given == k_out[1].outcomes[i].val
          IN IF IsList(result)
             THEN \A k \in 1..Len(to) :
                    k <= Len(result[2]) =>
                      DictHas(given, to[k][2]) /\ DictGet(given, to[k][2]) = result[2][k]
             ELSE \A k \in 1..Len(to) :
                    DictHas(given, to[k][2]) /\ DictGet(given, to[k][2]) = result

\* the last rule, in the order of the rule set, that did not fail and
\* whose result holds key
LastGiving(key) ==
    LET giving == { i \in 1..Len(k_out[1].outcomes) :
                      /\ k_out[1].outcomes[i].raised = "none"
                      /\ DictHas(k_out[1].outcomes[i].val, key) }
    IN CHOOSE i \in giving : \A j \in giving : j <= i

\* C22: when the processor of a rule raises, process_mapping does not
\* raise, and what every other rule of the rule set gave is in the
\* returned map (under a key that two rules give, what the later one gave).
C22_FailingRuleLeavesOtherRules ==
    k_out # <<>> =>
      /\ k_out[1].raised = "none"
      /\ \A i \in 1..Len(k_out[1].outcomes) :
           k_out[1].outcomes[i].raised = "none" =>
             \A n \in 1..Len(k_out[1].outcomes[i].val[2]) :
               LET key == k_out[1].outcomes[i].val[2][n][1] IN
               /\ DictHas(k_out[1].val, key)
               /\ DictGet(k_out[1].val, key) = DictGet(k_out[1].outcomes[LastGiving(key)].val, key)

\* a rule raised and another rule of the same call gave an entry
C22_Witness ==
    /\ k_out # <<>>
    /\ k_out[1].raised = "none"
    /\ \E i, j \in 1..Len(k_out[1].outcomes) :
         /\ k_out[1].outcomes[i].raised = "TypeError"
         /\ k_out[1].outcomes[j].raised = "none"
         /\ k_out[1].outcomes[j].val[2] # <<>>
         /\ \A n \in 1..Len(k_out[1].outcomes[j].val[2]) :
              DictHas(k_out[1].val, k_out[1].outcomes[j].val[2][n][1])

\* none of the 'from' paths of rule i resolves to a value
NoSourceResolves(i) ==
    LET from == DictGetOrNull(RulesOfCall[i].config, KFrom)
        paths == IF IsList(from) THEN from[2] ELSE IF IsStr(from) THEN <<from>> ELSE <<>>
    IN \A n \in 1..Len(paths) :
         IsNull(ExtractFieldValue(paths[n], k_request[1].mapping_vars, k_request[1].source_data))

\* C28: a rule none of whose 'from' paths resolves to a value in the
\* bindings or the source data contributes no entry to the returned map.
C28_UnresolvedRuleContributesNothing ==
    k_out # <<>> =>
      \A i \in 1..Len(k_out[1].outcomes) :
        NoSourceResolves(i) => k_out[1].outcomes[i].val = Dict(<<>>)

(***************************************************************************)
(* Properties of the path operations: delete, and set_value with a         *)
(* wildcard                                                                *)
(***************************************************************************)
\* a path of keys that are not optional and of indexes
PlainPath(segments) ==
    \A i \in 1..Len(segments) :
      \/ segments[i].type = "object_key" /\ ~segments[i].is_optional
      \/ segments[i].type = "array_index"

\* the tree without the entry that a plain path of it ends in
WithoutEntry(data, segments) ==
    LET last == segments[Len(segments)]
        parent_data == GetValue(data, ParentSegments(segments)).val
    IN PutAt(data, ParentSegments(segments),
             IF last.type = "object_key" THEN DictDel(parent_data, last.key)
             ELSE ListPop(parent_data, PyIndex(parent_data, last.idx)))

\* C23: delete on a path that exists in the tree and ends in an object key
\* or an array index returns True and removes that entry only, for a path of any
\* length, a single segment included; delete on an empty path or on a
\* target that does not exist returns False and leaves the tree unchanged.
C23_DeleteRemovesExistingEntry ==
    p_op = "delete" /\ PlainPath(p_path) =>
      IF p_path # <<>> /\ Exists(p_prev, p_path)
      THEN /\ p_res = Returned(Bool(TRUE))
           /\ p_tree = WithoutEntry(p_prev, p_path)
      ELSE /\ p_res = Returned(Bool(FALSE))
           /\ p_tree = p_prev

HasWildcard(segments) == \E i \in 1..Len(segments) : segments[i].type = "array_wildcard"

\* C24: set_value on a path with a wildcard segment, in any position,
\* fails with an error and leaves the tree unchanged.
C24_SetValueOnWildcardFails ==
    p_op \in {"set_value", "set_value_back"} /\ HasWildcard(p_path) =>
      /\ p_res.raised # "none"
      /\ p_tree = p_prev

(***************************************************************************)
(* Properties of protect_jinja_syntax                                      *)
(***************************************************************************)
\* what the map returned by call n holds now: every call returns
\* self.placeholder_map, one and the same dict
MapReturnedBy(n) == y_placeholders

\* the ids of the placeholders in a string, and in the strings of data
PlaceholdersInString(s) ==
    { SubSeq(s, i, i + 2) : i \in { j \in 1..(Len(s) - 2) : s[j] = "__JINJA_PLACEHOLDER_" } }
RECURSIVE PlaceholdersIn(_)
PlaceholdersIn(data) ==
    CASE IsDict(data) -> UNION { PlaceholdersIn(data[2][i][2]) : i \in 1..Len(data[2]) }
      [] IsList(data) -> UNION { PlaceholdersIn(data[2][i]) : i \in 1..Len(data[2]) }
      [] IsStr(data) -> PlaceholdersInString(data[2])
      [] OTHER -> {}

\* C29: the placeholder map that a call of protect_jinja_syntax returned
\* holds one entry, under an id of its own, for each placeholder in the
\* data that the call returned, and a later call on the same processor
\* does not change it.
C29_ReturnedMapStaysAsReturned ==
    \A n \in 1..Len(y_returned) :
      LET map == MapReturnedBy(n) IN
      /\ \A i, j \in 1..Len(map) : i # j => map[i].id # map[j].id
      /\ { map[i].id : i \in 1..Len(map) } = PlaceholdersIn(y_returned[n].data)
      /\ map = y_returned[n].was

(***************************************************************************)
(* Properties of map_variables                                             *)
(***************************************************************************)
\* the names of the variables of the expressions in a template
NamesIn(template) ==
    LET variable_map == MapVariables(template, <<>>).variable_map IN
    { variable_map[n].name : n \in 1..Len(variable_map) }

\* the names that occur in the item template of the dynamic array under
\* 'items' and nowhere else in the template
ItemOnlyNames(template) ==
    IF ~DictHas(template, kItems) THEN {}
    ELSE NamesIn(DictGet(template, kItems)[2][2]) \ NamesIn(DictDel(template, kItems))

\* C25: a variable that occurs only in the item template that follows an
\* array_dynamic marker is not in the variable_map that map_variables
\* returns.
C25_ItemVariablesStayOutOfParentMap ==
    v_out # <<>> =>
      \A n \in 1..Len(v_out[1].result.variable_map) :
        v_out[1].result.variable_map[n].name \notin ItemOnlyNames(v_template)

(***************************************************************************)
(* Properties of rendering: the bindings of an array item                  *)
(***************************************************************************)
kName == <<"name">>

\* the source collection of a marker: the list at its path, or the list
\* that the renderer finds in its place
SourceCollection(marker) ==
    LET at_path == GetNestedValue(r_source, SplitOn(marker.field_path, ".")) IN
    IF IsList(at_path) THEN at_path ELSE FindArrayDataHeuristic(r_source).val

\* the variables of the parent scope that are named for element i
NamedForElement(i) ==
    { n \in 1..Len(r_variables[2]) :
        LET var_name == r_variables[2][n][1] IN
        /\ Len(var_name) >= 2
        /\ var_name[Len(var_name) - 1] = "_"
        /\ var_name[Len(var_name)] = ToString(i) }

\* a text with an expression delimiter somewhere in the data
RECURSIVE HoldsDelimiters(_)
HoldsDelimiters(value) ==
    CASE IsStr(value) -> \E n \in 1..Len(value[2]) : value[2][n] \in {"{{", "}}", "{%", "{#"}
      [] IsList(value) -> \E n \in 1..Len(value[2]) : HoldsDelimiters(value[2][n])
      [] IsDict(value) -> \E n \in 1..Len(value[2]) : HoldsDelimiters(value[2][n][2])
      [] OTHER -> FALSE

\* the binding of base name "name" for element i: the parent variable
\* name_i when the parent scope has variables named for i, otherwise the
\* element's own value at "name"; <<>> when there is none
BindingOfName(i, element) ==
    IF NamedForElement(i) # {}
    THEN IF DictHas(r_variables, IndexedName(kName, i))
         THEN <<DictGet(r_variables, IndexedName(kName, i))>> ELSE <<>>
    ELSE IF IsDict(element) /\ DictHas(element, kName)
         THEN <<DictGet(element, kName)>> ELSE <<>>

\* C26: for element i of the source collection, the item template is
\* rendered with base name v bound to the parent variable v_i when the
\* parent scope has variables named for i, and to the value of element i
\* at key v otherwise; so output item i holds the values of input element
\* i and of no other element.  Stated for sources whose texts hold no
\* expression delimiter.
C26_ItemBindingsComeFromOwnElement ==
    r_pc = "done" /\ r_out[1].raised = "none" /\ ~HoldsDelimiters(r_source) =>
      \A m \in 1..Len(ParseArrayMarkers(r_template)) :
        LET marker == ParseArrayMarkers(r_template)[m]
            array_data == SourceCollection(marker)
            items == RenderedAt(marker)
        IN IsList(array_data) /\ DictHas(marker.template_item, kName) =>
             /\ IsList(items)
             /\ Len(items[2]) = Len(array_data[2])
             /\ \A i \in 0..(Len(array_data[2]) - 1) :
                  LET element == array_data[2][i + 1]
                      item == items[2][i + 1]
                  IN /\ BindingOfName(i, element) # <<>> =>
                          DictGet(item, kName) = BindingOfName(i, element)[1]
                     /\ IsDict(element) /\ DictHas(element, kName) =>
                          DictGet(item, kName) = DictGet(element, kName)

\* C27: a value that is substituted into the output from the bindings or
\* from the source data is there as it is, its expression delimiters
\* included: the leaf that names a bound variable holds the variable's
\* value, and the field of an array item holds the value bound for its
\* element.
C27_SubstitutedValuesAreEmittedVerbatim ==
    r_pc = "done" /\ r_out[1].raised = "none" =>
      /\ ( /\ DictHas(r_template, kCallee)
           /\ DictGet(r_template, kCallee) = Expr(kPerson)
           /\ DictHas(r_variables, kPerson) /\ IsStr(DictGet(r_variables, kPerson)) )
         => DictGet(r_out[1].val, kCallee) = DictGet(r_variables, kPerson)
      /\ \A m \in 1..Len(ParseArrayMarkers(r_template)) :
           LET marker == ParseArrayMarkers(r_template)[m]
               array_data == SourceCollection(marker)
               items == RenderedAt(marker)
           IN IsList(array_data) /\ DictHas(marker.template_item, kName) =>
                /\ IsList(items)
                /\ Len(items[2]) = Len(array_data[2])
                /\ \A i \in 0..(Len(array_data[2]) - 1) :
                     LET element == array_data[2][i + 1] IN
                     BindingOfName(i, element) # <<>> =>
                       DictGet(items[2][i + 1], kName) = BindingOfName(i, element)[1]

(***************************************************************************)
(* Properties of match_protocol after add_protocol                         *)
(***************************************************************************)
\* _is_match of the matcher in use, as a truth value
RegistryMatches(protocol, json_data) ==
    IF g_matcher = "core/matcher.py"
    THEN IsMatch(protocol.template_content, json_data)
    ELSE LET is_match == LegacyIsMatch(protocol.template_content, json_data) IN
         is_match.raised = "none" /\ is_match.val

\* the templates that are registered now: for each id, the protocol of the
\* last add_protocol call with that id, with the numbers of the first and
\* of the last call that gave the id
Registered ==
    { [protocol |-> g_added[n], first |-> CHOOSE f \in 1..n :
                                   /\ g_added[f].protocol_id = g_added[n].protocol_id
                                   /\ \A e \in 1..(f - 1) :
                                         g_added[e].protocol_id # g_added[n].protocol_id,
       last |-> n] :
        n \in { l \in 1..Len(g_added) :
                  \A e \in (l + 1)..Len(g_added) :
                     g_added[e].protocol_id # g_added[l].protocol_id } }

\* the registered templates of the requested family that match the data
Candidates ==
    { r \in Registered :
        /\ r.protocol.protocol_family = g_request[1].protocol_family
        /\ RegistryMatches(r.protocol, g_request[1].json_data) }

\* C30 as stated: match_protocol returns None only if no registered
\* template of the family matches, and otherwise the id of the matching
\* template of the family that was registered first, a template being
\* registered by the add_protocol call that gave it.
C30_ReturnsFirstRegisteredMatch ==
    g_out # <<>> /\ g_out[1].raised = "none" =>
      IF Candidates = {} THEN g_out[1].val = <<>>
      ELSE \E r \in Candidates :
             /\ g_out[1].val = r.protocol.protocol_id
             /\ \A other \in Candidates : r.last <= other.last

\* C30, amended: the id returned is that of the matching template of the
\* family whose id was registered first; a template given under an id that
\* is registered already takes the place of that id.
C30_ReturnsFirstRegisteredId ==
    g_out # <<>> /\ g_out[1].raised = "none" =>
      IF Candidates = {} THEN g_out[1].val = <<>>
      ELSE \E r \in Candidates :
             /\ g_out[1].val = r.protocol.protocol_id
             /\ \A other \in Candidates : r.first <= other.first

\* two registered templates of the family match, one of them under an id
\* that was registered again after the other id, and its id is returned
C30_Witness ==
    /\ g_out # <<>> /\ g_out[1].raised = "none"
    /\ \E r \in Candidates, other \in Candidates :
         /\ r.first < other.first /\ other.last < r.last
         /\ g_out[1].val = r.protocol.protocol_id

====
